---- MODULE Spec2Model ----
(***************************************************************************)
(* A model of the worldiety/i18n localization registry: the double         *)
(* buffered containers (bufferedMap, bufferedSlice), the per-language      *)
(* Bundle, the owning Resources registry and the template parser.          *)
(*                                                                         *)
(* A template text is a sequence of one-character strings.  A Go slice     *)
(* index i is position i+1 of the TLA+ sequence that models the slice.     *)
(* A nil slice, map or snapshot pointer behaves in every operation of the  *)
(* package like an empty one and is modelled as the empty value.           *)
(***************************************************************************)
EXTENDS Integers, Sequences, FiniteSets, TLC

\* ------------------------------------------------------------------ bounds

\* the number of calls a run makes
MaxCalls == 3

\* ------------------------------------------------------- template parser

\* the characters [a-zA-Z_] and [0-9] of varNameRe
Letters ==
    {"a", "b", "c", "d", "e", "f", "g", "h", "i", "j", "k", "l", "m", "n",
     "o", "p", "q", "r", "s", "t", "u", "v", "w", "x", "y", "z", "A", "B",
     "C", "D", "E", "F", "G", "H", "I", "J", "K", "L", "M", "N", "O", "P",
     "Q", "R", "S", "T", "U", "V", "W", "X", "Y", "Z", "_"}

Digits == {"0", "1", "2", "3", "4", "5", "6", "7", "8", "9"}

Spaces == {" "}

TextToken == "Text"

VarToken == "Var"

\* regexp ^[a-zA-Z_][a-zA-Z0-9_]*$ on a sequence of characters
varNameRe(name) ==
    /\ Len(name) > 0
    /\ name[1] \in Letters
    /\ \A i \in 2..Len(name) : name[i] \in Letters \cup Digits

RECURSIVE TrimLeft(_)
TrimLeft(s) ==
    IF s # <<>> /\ Head(s) \in Spaces THEN TrimLeft(Tail(s)) ELSE s

RECURSIVE TrimRight(_)
TrimRight(s) ==
    IF s # <<>> /\ s[Len(s)] \in Spaces
    THEN TrimRight(SubSeq(s, 1, Len(s) - 1))
    ELSE s

TrimSpace(s) == TrimRight(TrimLeft(s))

\* the parser's loop state before the first character
ParseStart ==
    [tokens |-> <<>>, buf |-> <<>>, inVar |-> FALSE, varBuf |-> <<>>,
     inQuote |-> FALSE, err |-> "nil"]

\* append ch to the variable buffer inside a variable, else to the text buffer
WriteByte(st, ch) ==
    IF st.inVar
    THEN [st EXCEPT !.varBuf = Append(@, ch)]
    ELSE [st EXCEPT !.buf = Append(@, ch)]

\* a '}' that closes a variable whatever its name is
CloseVarAnyName(st, name) ==
    [st EXCEPT !.tokens = Append(@, [Type |-> VarToken, Value |-> name]),
               !.inVar = FALSE]

\* the '}' that closes a variable whose trimmed name is name
CloseVar(st, name) ==
    IF ~varNameRe(name)
    THEN [st EXCEPT !.tokens = <<>>, !.err = "invalid variable name"]
    ELSE [st EXCEPT !.tokens = Append(@, [Type |-> VarToken, Value |-> name]),
                    !.inVar = FALSE]

\* a '{' that opens a variable and drops the pending text
OpenVarNoFlush(st) ==
    [st EXCEPT !.buf = <<>>, !.inVar = TRUE, !.varBuf = <<>>]

\* the '{' that opens a variable: flush the pending text
OpenVar(st) ==
    [st EXCEPT
        !.tokens = IF st.buf # <<>>
                   THEN Append(@, [Type |-> TextToken, Value |-> st.buf])
                   ELSE @,
        !.buf = <<>>,
        !.inVar = TRUE,
        !.varBuf = <<>>]

\* the loop of Parse from (1-based) position i on
RECURSIVE ParseLoop(_, _, _)
ParseLoop(input, i, st) ==
    IF i > Len(input) \/ st.err # "nil" THEN st
    ELSE IF input[i] = "'" THEN
        IF i + 1 <= Len(input) /\ input[i + 1] = "'"
        THEN ParseLoop(input, i + 2, WriteByte(st, "'"))
        ELSE IF st.inQuote
        THEN ParseLoop(input, i + 1, [st EXCEPT !.inQuote = FALSE])
        ELSE IF i + 1 <= Len(input) /\ input[i + 1] \in {"{", "}", "'"}
        THEN ParseLoop(input, i + 1, [st EXCEPT !.inQuote = TRUE])
        ELSE ParseLoop(input, i + 1, WriteByte(st, "'"))
    ELSE IF input[i] = "{" /\ ~st.inVar /\ ~st.inQuote
    THEN ParseLoop(input, i + 1, OpenVar(st))
    ELSE IF input[i] = "}" /\ st.inVar /\ ~st.inQuote
    THEN ParseLoop(input, i + 1, CloseVar(st, TrimSpace(st.varBuf)))
    ELSE ParseLoop(input, i + 1, WriteByte(st, input[i]))

\* an end of Parse that lets an open variable pass
ParseEndLenient(st) ==
    IF st.err # "nil" THEN [tokens |-> <<>>, err |-> st.err]
    ELSE [tokens |-> IF st.buf # <<>>
                     THEN Append(st.tokens, [Type |-> TextToken, Value |-> st.buf])
                     ELSE st.tokens,
          err |-> "nil"]

\* the end of Parse, st being the state the loop ended in
ParseEnd(st) ==
    IF st.err # "nil" THEN [tokens |-> <<>>, err |-> st.err]
    ELSE IF st.inVar THEN [tokens |-> <<>>, err |-> "unclosed variable"]
    ELSE [tokens |-> IF st.buf # <<>>
                     THEN Append(st.tokens, [Type |-> TextToken, Value |-> st.buf])
                     ELSE st.tokens,
          err |-> "nil"]

\* Parse(input): [tokens, err]
Parse(input) == ParseEnd(ParseLoop(input, 1, ParseStart))

\* the zero Template
NoTemplate == [parts |-> <<>>, raw |-> <<>>]

\* the Template ParseTemplate makes of what Parse returned
TemplateOf(text, p) ==
    IF p.err # "nil" THEN [tpl |-> NoTemplate, err |-> p.err]
    ELSE [tpl |-> [parts |-> p.tokens, raw |-> text], err |-> "nil"]

\* ParseTemplate(text): [tpl, err]
ParseTemplate(text) ==
    IF Len(text) = 0 THEN [tpl |-> NoTemplate, err |-> "nil"]
    ELSE TemplateOf(text, Parse(text))

\* ---------------------------------------------------- quantity templates

\* the CLDR plural forms in the order of x/text's plural.Form (Other = 0)
PluralForms == <<"Other", "Zero", "One", "Two", "Few", "Many">>

\* the zero Quantities struct
NoQuantities ==
    [Zero |-> <<>>, One |-> <<>>, Two |-> <<>>, Few |-> <<>>, Many |-> <<>>,
     Other |-> <<>>]

\* the zero quantityTemplates struct
NoQuantityTemplates ==
    [templates |-> [i \in 1..6 |-> NoTemplate], raw |-> NoQuantities]

\* the six messages of a Quantities struct parsed in array order
ParsedForms(quants) == [i \in 1..6 |-> ParseTemplate(quants[PluralForms[i]])]

\* the loop of parseQuantityTemplates over the parsed messages from i on
RECURSIVE QuantityLoop(_, _, _)
QuantityLoop(quants, parsed, i) ==
    IF i > 6
    THEN [qtpls |-> [templates |-> [j \in 1..6 |-> parsed[j].tpl],
                     raw |-> quants],
          err |-> "nil"]
    ELSE IF parsed[i].err # "nil"
    THEN [qtpls |-> NoQuantityTemplates, err |-> parsed[i].err]
    ELSE QuantityLoop(quants, parsed, i + 1)

\* parseQuantityTemplates(quants): [qtpls, err]
parseQuantityTemplates(quants) == QuantityLoop(quants, ParsedForms(quants), 1)

\* ------------------------------------------------------------- strData

MessageUndefined == "Undefined"

MessageString == "String"

MessageVarString == "VarString"

MessageQuantities == "Quantities"

MessageTypes ==
    {MessageUndefined, MessageString, MessageVarString, MessageQuantities}

\* the zero strData
ZeroStrData ==
    [kind |-> MessageUndefined, constStr |-> <<>>, template |-> NoTemplate,
     quantityTemplates |-> NoQuantityTemplates]

\* ------------------------------------------------------- bufferedSlice

\* a bufferedSlice with no content: mutSlice nil, readSlice nil, not dirty
NewSlice == [mut |-> <<>>, read |-> <<>>, dirty |-> FALSE]

\* All(): the sequence the iteration yields, the snapshot on the fast path
\* and mutSlice on the slow one
SliceAll(s) == IF s.dirty THEN s.mut ELSE s.read

\* At(idx): [v, ok]
SliceAt(s, idx, zero) ==
    IF idx < 0 \/ idx >= Len(SliceAll(s))
    THEN [v |-> zero, ok |-> FALSE]
    ELSE [v |-> SliceAll(s)[idx + 1], ok |-> TRUE]

\* Len()
SliceLen(s) == Len(SliceAll(s))

\* Flush() that clears the dirty flag without installing a new snapshot
SliceFlushNoCopy(s) == [s EXCEPT !.dirty = FALSE]

\* Flush(): copy mutSlice into a new snapshot when dirty
SliceFlush(s) ==
    IF ~s.dirty THEN s ELSE [s EXCEPT !.read = s.mut, !.dirty = FALSE]

\* Clone(): a new bufferedSlice whose snapshot holds the elements of
\* mutSlice, or of the snapshot when mutSlice is nil; the elements of the
\* package's slices are not Cloneable and are copied as they are
SliceClone(s) ==
    [mut |-> <<>>, read |-> IF s.mut = <<>> THEN s.read ELSE s.mut,
     dirty |-> FALSE]

\* the zero-extension of Set: mutSlice made long enough to hold idx
Grown(mut, idx, zero) ==
    IF idx >= Len(mut)
    THEN mut \o [i \in 1..(idx - Len(mut) + 1) |-> zero]
    ELSE mut

\* Set(idx, val): zero-extend mutSlice to fit idx, store, mark dirty
SliceSet(s, idx, val, zero) ==
    [s EXCEPT !.mut = [Grown(s.mut, idx, zero) EXCEPT ![idx + 1] = val],
              !.dirty = TRUE]

\* Append(val...)
SliceAppend(s, vals) == [s EXCEPT !.mut = @ \o vals, !.dirty = TRUE]

\* Clear()
SliceClear(s) == [s EXCEPT !.mut = <<>>, !.dirty = TRUE]

\* Replace(slice)
SliceReplace(s, slice) == [s EXCEPT !.mut = slice, !.dirty = TRUE]

\* --------------------------------------------------------- bufferedMap

\* the empty map
NoMap == [k \in {} |-> 0]

\* a bufferedMap with no content: mutMap nil, readMap nil, not dirty
NewMap == [mut |-> NoMap, read |-> NoMap, dirty |-> FALSE]

\* the map a read looks at
MapView(m) == IF m.dirty THEN m.mut ELSE m.read

\* Get(key): [v, ok]
MapGet(m, key, zero) ==
    IF key \in DOMAIN MapView(m)
    THEN [v |-> MapView(m)[key], ok |-> TRUE]
    ELSE [v |-> zero, ok |-> FALSE]

\* All(): the keys the iteration yields (in an order Go does not fix)
MapKeys(m) == DOMAIN MapView(m)

\* Len()
MapLen(m) == Cardinality(MapKeys(m))

\* Put(key, val)
MapPut(m, key, val) ==
    [m EXCEPT !.mut = (key :> val) @@ m.mut, !.dirty = TRUE]

\* Flush()
MapFlush(m) ==
    IF ~m.dirty THEN m ELSE [m EXCEPT !.read = m.mut, !.dirty = FALSE]

\* s.CopyInto(dst): dst.mutMap becomes a copy of mutMap, or of the snapshot
\* when mutMap is nil; dst keeps its snapshot and its dirty flag.  No value
\* type of the package's maps is Cloneable (a *Bundle is not), so the
\* values are copied as they are.
MapCopyInto(s, dst) ==
    [dst EXCEPT !.mut = IF DOMAIN s.mut = {} THEN s.read ELSE s.mut]

\* ------------------------------------------------------ language tags

\* the language tags of the model
AllTags == {"de", "de-AT", "en", "fr"}

\* the tags registration calls are made with
LangTags == {"de", "en"}

\* language.Und, the zero tag
Und == "und"

\* the tags in the order of strings.Compare on Tag.String()
TagOrder == <<"de", "de-AT", "en", "fr">>

\* the position of a tag in TagOrder
TagRank(tag) == CHOOSE i \in 1..Len(TagOrder) : TagOrder[i] = tag

\* the base language of a tag
TagBase(tag) == IF tag = "de-AT" THEN "de" ELSE tag

\* a set of tags as the sequence sorted by strings.Compare
RECURSIVE SortTags(_)
SortTags(S) ==
    IF S = {} THEN <<>>
    ELSE LET m == CHOOSE t \in S : \A u \in S : TagRank(t) <= TagRank(u)
         IN <<m>> \o SortTags(S \ {m})

\* slices.Contains
Contains(seq, x) == \E i \in 1..Len(seq) : seq[i] = x

\* the first index (1-based) of seq that satisfies membership in S
FirstIn(seq, S) ==
    CHOOSE i \in 1..Len(seq) : seq[i] \in S /\ \A j \in 1..(i - 1) : seq[j] \notin S

\* language.Matcher.Match of golang.org/x/text over the supported tags:
\* [t, idx, confi] with the 0-based index of the match.  An equal tag is an
\* exact match, a tag of the same base language a partial (High) one; without
\* either the matcher answers its default, the first tag (Und when it has
\* none), at index 0 with confidence No.
Match(tags, tag) ==
    IF Contains(tags, tag)
    THEN [t |-> tag, idx |-> FirstIn(tags, {tag}) - 1, confi |-> "Exact"]
    ELSE LET rel == {u \in AllTags : TagBase(u) = TagBase(tag)} IN
         IF \E i \in 1..Len(tags) : tags[i] \in rel
         THEN [t |-> tags[FirstIn(tags, rel)], idx |-> FirstIn(tags, rel) - 1,
               confi |-> "High"]
         ELSE [t |-> IF tags = <<>> THEN Und ELSE tags[1], idx |-> 0,
               confi |-> "No"]

\* ------------------------------------------------------------ Resources

\* r.matcher holding nil
NoMatcher == [set |-> FALSE, tags |-> <<>>]

\* language.NewMatcher(tags) stored in r.matcher
NewMatcher(tags) == [set |-> TRUE, tags |-> tags]

\* the zero Resources value
NewResources ==
    [children |-> NewMap, lastHandle |-> 0, handles |-> NewMap,
     reverseHandles |-> NewMap, keyDescriptions |-> NewMap,
     priorities |-> NewSlice, matcher |-> NoMatcher]

\* The registries of the model: the one under test and the one its Clone
\* returns.  A *Bundle is named by the tag it was made for when the first
\* made it, and by that tag with a mark when the second did.
Registries == {"r", "c"}

CloneBundle ==
    [t \in AllTags |->
        CASE t = "de" -> "c:de" [] t = "de-AT" -> "c:de-AT"
          [] t = "en" -> "c:en" [] t = "fr" -> "c:fr"]

\* every Bundle object there can be
Bundles == AllTags \cup {CloneBundle[t] : t \in AllTags}

\* the fields of a Bundle: b.tag and b.parent
BundleTag(b) ==
    IF b \in AllTags THEN b ELSE CHOOSE t \in AllTags : CloneBundle[t] = b

BundleParent(b) == IF b \in AllTags THEN "r" ELSE "c"

\* a registry (self names it, res is its Resources value) together with
\* what it can reach: the Bundle objects (their strings containers) and
\* peer, the Resources value of the other registry, which is the parent of
\* the Bundles that one made; cloned tells whether Clone has returned the
\* other registry yet
NewWorld ==
    [self |-> "r", res |-> NewResources, peer |-> NewResources,
     cloned |-> FALSE, bundles |-> [b \in Bundles |-> NewSlice]]

\* *b.parent as registry w reaches it
ParentOf(w, b) == IF BundleParent(b) = w.self THEN w.res ELSE w.peer

\* newBundle(r, tag): the Bundle registry w makes for the tag
newBundle(w, tag) == IF w.self = "r" THEN tag ELSE CloneBundle[tag]

\* r.children.Get(tag)
GetChild(w, tag) == MapGet(w.res.children, tag, Und)

\* the tags r.children.All() yields
ChildTags(w) == MapKeys(w.res.children)

\* the Bundles r.children.All() yields
Children(w) == {MapView(w.res.children)[t] : t \in ChildTags(w)}

\* r.reverseHandles.Get(key)
GetHandle(w, key) == MapGet(w.res.reverseHandles, key, 0)

\* b.strings.At(hnd) of Bundle b
StringsAt(w, b, hnd) == SliceAt(w.bundles[b], hnd, ZeroStrData)

\* b.strings.Set(hnd, data) of Bundle b
StringsSet(w, b, hnd, data) ==
    [w EXCEPT !.bundles[b] = SliceSet(@, hnd, data, ZeroStrData)]

\* bnd, ok := r.children.Get(tag); if !ok { newBundle; clearMatcher; Put }
EnsureBundle(w, tag) ==
    IF GetChild(w, tag).ok THEN w
    ELSE [w EXCEPT !.bundles[newBundle(w, tag)] = NewSlice,
                   !.res.matcher = NoMatcher,
                   !.res.children = MapPut(@, tag, newBundle(w, tag))]

\* nextHnd(), then handles.Put and reverseHandles.Put
RegisterKey(w, key) ==
    [w EXCEPT !.res.lastHandle = @ + 1,
              !.res.handles = MapPut(@, w.res.lastHandle + 1, key),
              !.res.reverseHandles = MapPut(@, key, w.res.lastHandle + 1)]

\* the entry AddString builds
StringData(str) ==
    [data |-> [ZeroStrData EXCEPT !.kind = MessageString, !.constStr = str],
     err |-> "nil"]

\* the entry AddVarString builds from what ParseTemplate returned
VarStringData(p) ==
    [data |-> [ZeroStrData EXCEPT !.kind = MessageVarString,
                                  !.template = p.tpl],
     err |-> p.err]

\* the entry AddQuantityString builds from what parseQuantityTemplates
\* returned
QuantityData(p) ==
    [data |-> [ZeroStrData EXCEPT !.kind = MessageQuantities,
                                  !.quantityTemplates = p.qtpls],
     err |-> p.err]

\* the entry an add call of the given kind builds from one language's
\* value: [data, err]
MakeStrData(kind, val) ==
    CASE kind = MessageString -> StringData(val)
      [] kind = MessageVarString -> VarStringData(ParseTemplate(val))
      [] kind = MessageQuantities -> QuantityData(parseQuantityTemplates(val))

\* the loop over the values of an add call, in the order vals lists them
\* (Go iterates the map in an order of its choice): [w, err]
RECURSIVE AddValues(_, _, _, _, _)

\* one round of that loop that takes back, when the value does not parse,
\* the entries the call has written for hnd
StoreValueRollback(w1, hnd, kind, vals, i, d) ==
    IF d.err # "nil"
    THEN [w |-> [w1 EXCEPT !.bundles = [t \in Bundles |->
                    IF SliceAt(@[t], hnd, ZeroStrData).ok
                    THEN SliceSet(@[t], hnd, ZeroStrData, ZeroStrData)
                    ELSE @[t]]],
          err |-> d.err]
    ELSE AddValues(StringsSet(w1, GetChild(w1, vals[i][1]).v, hnd, d.data),
                   hnd, kind, vals,
                   i + 1)

\* the end of one round of that loop: w1 has the Bundle, d is the entry
StoreValue(w1, hnd, kind, vals, i, d) ==
    IF d.err # "nil" THEN [w |-> w1, err |-> d.err]
    ELSE AddValues(StringsSet(w1, GetChild(w1, vals[i][1]).v, hnd, d.data),
                   hnd, kind, vals,
                   i + 1)

AddValues(w, hnd, kind, vals, i) ==
    IF i > Len(vals) THEN [w |-> w, err |-> "nil"]
    ELSE StoreValue(EnsureBundle(w, vals[i][1]), hnd, kind, vals, i,
                    MakeStrData(kind, vals[i][2]))

\* the options of an add call applied in order; an option is a
\* LocalizationHint, given by its description
RECURSIVE ApplyOptions(_, _, _, _)
ApplyOptions(w, key, opts, i) ==
    IF i > Len(opts) THEN w
    ELSE ApplyOptions(
            [w EXCEPT !.res.keyDescriptions = MapPut(@, key, opts[i])],
            key, opts, i + 1)

\* the end of an add call: a is what the loop over the values returned
AddReturn(a, key, opts, hnd) ==
    IF a.err # "nil" THEN [w |-> a.w, hnd |-> 0, err |-> a.err]
    ELSE [w |-> ApplyOptions(a.w, key, opts, 1), hnd |-> hnd, err |-> "nil"]

\* an add call from the loop over the values on: w1 has the Key registered
AddNew(w1, kind, key, vals, opts) ==
    AddReturn(AddValues(w1, w1.res.lastHandle, kind, vals, 1), key, opts,
              w1.res.lastHandle)

\* an add call that lets a known Key through to a new registration
AddNoExistCheck(w, kind, key, vals, opts) ==
    AddNew(RegisterKey(w, key), kind, key, vals, opts)

\* AddString / AddVarString / AddQuantityString(key, values, opts...), the
\* three differing in the kind of entry they build: [w, hnd, err]
Add(w, kind, key, vals, opts) ==
    IF GetHandle(w, key).ok
    THEN [w |-> w, hnd |-> GetHandle(w, key).v, err |-> "ErrExist"]
    ELSE AddNew(RegisterKey(w, key), kind, key, vals, opts)

\* AddLanguage(tag): [w, created]
AddLanguage(w, tag) ==
    IF GetChild(w, tag).ok THEN [w |-> w, created |-> FALSE]
    ELSE [w |-> [w EXCEPT !.bundles[newBundle(w, tag)] = NewSlice,
                          !.res.priorities = SliceAppend(@, <<tag>>),
                          !.res.matcher = NoMatcher,
                          !.res.children = MapPut(@, tag, newBundle(w, tag))],
          created |-> TRUE]

\* SetPriorities(tags...)
SetPriorities(w, tags) ==
    [w EXCEPT !.res.priorities = SliceAppend(SliceClear(@), tags),
              !.res.matcher = NoMatcher]

\* Bundle.Flush of every Bundle in bs
FlushBundles(w, bs) ==
    [w EXCEPT !.bundles = [t \in Bundles |->
                            IF t \in bs THEN SliceFlush(@[t]) ELSE @[t]]]

\* r.children.Flush(), the first statement of Resources.Flush
FlushChildren(w) == [w EXCEPT !.res.children = MapFlush(@)]

\* the loop of Resources.Flush over r.children.All()
FlushAll(w1) == FlushBundles(w1, Children(w1))

\* the last statements of Resources.Flush
FlushHandles(w2) ==
    [w2 EXCEPT !.res.handles = MapFlush(@),
               !.res.reverseHandles = MapFlush(@),
               !.res.priorities = SliceFlush(@)]

\* Resources.Flush()
Flush(w) == FlushHandles(FlushAll(FlushChildren(w)))

\* the Resources value Clone builds of r
ClonedResources(r) ==
    [children |-> MapCopyInto(r.children, NewMap),
     lastHandle |-> r.lastHandle,
     handles |-> MapCopyInto(r.handles, NewMap),
     reverseHandles |-> MapCopyInto(r.reverseHandles, NewMap),
     keyDescriptions |-> MapCopyInto(r.keyDescriptions, NewMap),
     priorities |-> SliceClone(r.priorities),
     matcher |-> r.matcher]

\* Resources.Clone(): the other registry is what Clone returns
Clone(w) == [w EXCEPT !.peer = ClonedResources(w.res), !.cloned = TRUE]

\* the other registry of w, reaching the same Bundle objects
Other(w) ==
    [w EXCEPT !.self = IF w.self = "r" THEN "c" ELSE "r",
              !.res = w.peer, !.peer = w.res]

\* the registry that is the parent of Bundle b
ParentWorld(w, b) == IF BundleParent(b) = w.self THEN w ELSE Other(w)


\* --------------------------------------------------------------- Bundle

\* the kind of what b.strings.At returned
KindAt(dat) == IF ~dat.ok THEN MessageUndefined ELSE dat.v.kind

\* a MessageTypeByKey that looks at the handle allocated last instead of
\* the handle of key
MessageTypeByKeyOfLast(w, b, key) ==
    IF ~MapGet(ParentOf(w, b).reverseHandles, key, 0).ok
    THEN MessageUndefined
    ELSE KindAt(StringsAt(w, b, ParentOf(w, b).lastHandle))

\* Bundle.MessageTypeByKey(key) of Bundle b
MessageTypeByKey(w, b, key) ==
    IF ~MapGet(ParentOf(w, b).reverseHandles, key, 0).ok
    THEN MessageUndefined
    ELSE KindAt(StringsAt(w, b,
                          MapGet(ParentOf(w, b).reverseHandles, key, 0).v))

\* what the loop of MessageType returns when the Bundles hold the kinds ts
FirstDefined(ts) == IF ts = {} THEN {MessageUndefined} ELSE ts

\* Resources.MessageType(key): the answers the loop over r.children.All()
\* can give (the map is iterated in an order of Go's choice)
MessageType(w, key) ==
    FirstDefined({MessageTypeByKey(w, b, key) : b \in Children(w)}
                    \ {MessageUndefined})

\* the zero Message
NoMessage ==
    [Key |-> "", Kind |-> MessageUndefined, Value |-> <<>>,
     Quantities |-> NoQuantities]

\* the MessageVarString case of Update that stores the entry although the
\* template did not parse
StoreTemplateFirst(w, b, hnd, data, p) ==
    [w |-> StringsSet(w, b, hnd, [data EXCEPT !.template = p.tpl]),
     err |-> p.err]

\* the MessageVarString case of Update: p is what ParseTemplate returned
StoreTemplate(w, b, hnd, data, p) ==
    IF p.err # "nil" THEN [w |-> w, err |-> p.err]
    ELSE [w |-> StringsSet(w, b, hnd, [data EXCEPT !.template = p.tpl]),
          err |-> "nil"]

\* the MessageQuantities case of Update: p is what parseQuantityTemplates
\* returned
StoreQuantities(w, b, hnd, data, p) ==
    IF p.err # "nil" THEN [w |-> w, err |-> p.err]
    ELSE [w |-> StringsSet(w, b, hnd,
                    [data EXCEPT !.quantityTemplates = p.qtpls]),
          err |-> "nil"]

\* the switch over msg.Kind and the final b.strings.Set of Update
UpdateStore(w, b, hnd, kind, msg, data) ==
    CASE kind = MessageString ->
            [w |-> StringsSet(w, b, hnd, [data EXCEPT !.constStr = msg.Value]),
             err |-> "nil"]
      [] kind = MessageVarString ->
            StoreTemplate(w, b, hnd, data, ParseTemplate(msg.Value))
      [] kind = MessageQuantities ->
            StoreQuantities(w, b, hnd, data,
                            parseQuantityTemplates(msg.Quantities))
      [] OTHER -> [w |-> w, err |-> "unsupported type"]

\* the entry Update starts from: the stored one, or the zero one when it
\* has to insert; its kind is set to expectedType
UpdateData(old, requiresInsert, expectedType) ==
    [(IF requiresInsert THEN ZeroStrData ELSE old.v)
        EXCEPT !.kind = expectedType]

\* Update of a registered Key that takes a Message of any Kind
UpdateAnyKind(w, b, msg, expectedType, checkedType, hnd, kind, old) ==
    UpdateStore(w, b, hnd, kind, msg,
                UpdateData(old, msg.Kind = MessageUndefined \/ ~old.ok,
                           expectedType))

\* Update from the Kind check on: hnd is the handle of msg.Key, kind is
\* msg.Kind after an undefined one was set to expectedType, old is what
\* b.strings.At(hnd) returned
UpdateKnown(w, b, msg, expectedType, checkedType, hnd, kind, old) ==
    IF checkedType # kind THEN [w |-> w, err |-> "type mismatch"]
    ELSE UpdateStore(w, b, hnd, kind, msg,
                     UpdateData(old, msg.Kind = MessageUndefined \/ ~old.ok,
                                expectedType))

\* Bundle.Update(msg) of Bundle b, where expectedType and checkedType are
\* the answers of its two calls of r.MessageType(msg.Key): [w, err]
Update(w, b, msg, expectedType, checkedType) ==
    IF msg.Key = "" THEN [w |-> w, err |-> "without key"]
    ELSE IF ~GetHandle(w, msg.Key).ok THEN [w |-> w, err |-> "no handle"]
    ELSE UpdateKnown(w, b, msg, expectedType, checkedType,
                     GetHandle(w, msg.Key).v,
                     IF msg.Kind = MessageUndefined
                     THEN expectedType ELSE msg.Kind,
                     StringsAt(w, b, GetHandle(w, msg.Key).v))

\* --------------------------------------------------------- tag matching

\* the tag list MatchTag builds: the priorities, then the Bundle tags
\* missing from them in sorted order
RepairedPriorities(w) ==
    SliceAll(w.res.priorities)
        \o SortTags({t \in ChildTags(w) :
                        ~Contains(SliceAll(w.res.priorities), t)})

\* a r.matcher.Store that leaves r.priorities as it is
StoreMatcherOnly(w, tags) == [w EXCEPT !.res.matcher = NewMatcher(tags)]

\* r.priorities.Replace(tags); r.priorities.Flush(); r.matcher.Store
StoreMatcher(w, tags) ==
    [w EXCEPT !.res.priorities = SliceFlush(SliceReplace(@, tags)),
              !.res.matcher = NewMatcher(tags)]

\* the part of MatchTag that runs when no matcher is cached, under r.mutex
BuildMatcher(w) == StoreMatcher(w, RepairedPriorities(w))

\* the returns of MatchTag: m is what the matcher answered, at what
\* r.priorities.At(idx) returned
MatchReturn(res, tag, m, at) ==
    IF m.confi = "Exact"
    THEN IF at.ok THEN res @@ [tag |-> at.v, ok |-> TRUE]
         ELSE res @@ [tag |-> m.t, ok |-> TRUE]
    ELSE IF m.confi = "No" THEN res @@ [tag |-> tag, ok |-> FALSE]
    ELSE IF at.ok THEN res @@ [tag |-> at.v, ok |-> TRUE]
    ELSE res @@ [tag |-> Und, ok |-> FALSE]

\* MatchTag after the matcher answered m
MatchAnswer(res, tag, m) ==
    MatchReturn(res, tag, m, SliceAt(res.w.res.priorities, m.idx, Und))

\* MatchTag that builds a new matcher although one is cached
MatchCachedRebuild(w, tag) ==
    MatchAnswer([w |-> BuildMatcher(w), mutex |-> TRUE], tag,
                Match(RepairedPriorities(w), tag))

\* MatchTag with a cached matcher
MatchCached(w, tag) ==
    MatchAnswer([w |-> w, mutex |-> FALSE], tag,
                Match(w.res.matcher.tags, tag))

\* MatchTag that builds the matcher over w1, the registry after BuildMatcher
MatchBuilt(w1, tag) ==
    MatchAnswer([w |-> w1, mutex |-> TRUE], tag,
                Match(w1.res.matcher.tags, tag))

\* MatchTag(tag): [w, mutex, tag, ok], mutex telling whether r.mutex was
\* taken
MatchTag(w, tag) ==
    IF w.res.matcher.set THEN MatchCached(w, tag)
    ELSE MatchBuilt(BuildMatcher(w), tag)

\* the end of MatchBundle: t is what MatchTag returned
BundleOf(t) ==
    IF ~t.ok THEN [w |-> t.w, mutex |-> t.mutex, b |-> Und, ok |-> FALSE]
    ELSE [w |-> t.w, mutex |-> t.mutex, b |-> GetChild(t.w, t.tag).v,
          ok |-> GetChild(t.w, t.tag).ok]

\* MatchBundle(tag): [w, mutex, b, ok]
MatchBundle(w, tag) ==
    IF GetChild(w, tag).ok
    THEN [w |-> w, mutex |-> FALSE, b |-> GetChild(w, tag).v, ok |-> TRUE]
    ELSE BundleOf(MatchTag(w, tag))

\* str, ok := b.strings.At(hnd); ok && str.kind != MessageUndefined
DefinedEntry(str) == str.ok /\ str.v.kind # MessageUndefined

\* whether Bundle b holds a defined entry at hnd
Defines(w, b, hnd) == DefinedEntry(StringsAt(w, b, hnd))

\* the loop of matchStrData over r.priorities.All() from position i on:
\* the first Bundle that defines hnd; Und if there is none
RECURSIVE FirstPriority(_, _, _)
FirstPriority(w, hnd, i) ==
    IF i > SliceLen(w.res.priorities) THEN Und
    ELSE IF /\ GetChild(w, SliceAll(w.res.priorities)[i]).ok
            /\ Defines(w, GetChild(w, SliceAll(w.res.priorities)[i]).v, hnd)
    THEN GetChild(w, SliceAll(w.res.priorities)[i]).v
    ELSE FirstPriority(w, hnd, i + 1)

\* return str, true with the entry of Bundle b; m is what MatchBundle
\* returned
Found(m, b, hnd) ==
    [w |-> m.w, mutex |-> m.mutex, data |-> StringsAt(m.w, b, hnd).v,
     ok |-> TRUE, from |-> b]

\* return strData{}, false
NotFound(m) ==
    [w |-> m.w, mutex |-> m.mutex, data |-> ZeroStrData, ok |-> FALSE,
     from |-> Und]

\* matchStrData without its last loop
NoScan(m, hnd, bs) == {NotFound(m)}

\* the last loop of matchStrData, over r.children.All() in an order of
\* Go's choice: bs are the Bundles that define hnd
ScanChildren(m, hnd, bs) ==
    IF bs = {} THEN {NotFound(m)} ELSE {Found(m, b, hnd) : b \in bs}

\* a matchStrData that goes from the best match to any Bundle
ScanAnyChild(m, hnd, p) ==
    ScanChildren(m, hnd, {b \in Children(m.w) : Defines(m.w, b, hnd)})

\* matchStrData after the loop over the priorities returned p
ScanPriorities(m, hnd, p) ==
    IF p # Und THEN {Found(m, p, hnd)}
    ELSE ScanChildren(m, hnd, {b \in Children(m.w) : Defines(m.w, b, hnd)})

\* matchStrData after MatchBundle returned m
InBundle(m, hnd) ==
    IF ~m.ok THEN {NotFound(m)}
    ELSE IF Defines(m.w, m.b, hnd) THEN {Found(m, m.b, hnd)}
    ELSE ScanPriorities(m, hnd, FirstPriority(m.w, hnd, 1))

\* matchStrData(tag, hnd): the set of [w, mutex, data, ok] it can return
matchStrData(w, tag, hnd) == InBundle(MatchBundle(w, tag), hnd)

\* the three kinds of lookup, named by the kind of entry each one returns
LookupKinds == {MessageString, MessageVarString, MessageQuantities}

\* MatchString / MatchVarString / MatchQuantityString(tag, hnd): the set of
\* [w, mutex, data, ok]; data is the entry the returned text is made of
MatchKind(w, kind, tag, hnd) ==
    {IF str.data.kind # kind
     THEN [str EXCEPT !.data = ZeroStrData, !.ok = FALSE]
     ELSE [str EXCEPT !.ok = TRUE] : str \in matchStrData(w, tag, hnd)}

\* Bundle.String / VarString / QuantityString(id) of Bundle b: the set of
\* [w, mutex, data, ok]
BundleKind(w, kind, b, id) ==
    IF StringsAt(w, b, id).ok /\ StringsAt(w, b, id).v.kind = kind
    THEN {[w |-> w, mutex |-> FALSE, data |-> StringsAt(w, b, id).v,
           ok |-> TRUE, from |-> b]}
    ELSE MatchKind(w, kind, BundleTag(b), id)

\* ------------------------------------------------------ the state machine

\* world: the registry and its Bundle objects; shadow: the registry the
\* same calls lead to when every Resources.Flush among them is left out;
\* ret: the last call, its arguments, what it returned, when it succeeded
\* in writing entries, their kind and the <<tag, payload>> it wrote, and
\* when an add call failed on a payload, the values in the order the call
\* went through them; on names the registry the call was made on, text is
\* the text Resolve was called with and str the string it returned;
\* issued: the handle each Key was registered under; returned: the handles
\* the add calls have returned; calls: the number of calls made.
\* For calls that run at the same time: arg is the call each thread makes,
\* pc the statement it is at, local its local variables, mutex the thread
\* that holds r.mutex.
VARIABLES world, shadow, ret, issued, returned, calls, pc, arg, local, mutex

vars == <<world, shadow, ret, issued, returned, calls, pc, arg, local, mutex>>

\* the threads that call the registry at the same time
Threads == {"t1", "t2"}

\* the local variables of a call before it has set them
NoLocal ==
    [hnd |-> 0, expectedType |-> MessageUndefined, kind |-> MessageUndefined,
     requiresInsert |-> FALSE, data |-> ZeroStrData, err |-> "nil", i |-> 1,
     tags |-> <<>>, matcher |-> NoMatcher, matched |-> Und, ok |-> FALSE,
     fast |-> FALSE, ptr |-> 0, from |-> 0, saw |-> 0, result |-> 0]

\* a thread that makes no call
NoThreadCall ==
    [op |-> "none", tags |-> <<>>, tag |-> Und, msg |-> NoMessage,
     kind |-> MessageUndefined, key |-> "", vals |-> <<>>,
     on |-> "s", idx |-> 0, val |-> 0]

\* no thread makes a call of its own
NoThreads ==
    /\ pc = [t \in Threads |-> "done"]
    /\ arg = [t \in Threads |-> NoThreadCall]
    /\ local = [t \in Threads |-> NoLocal]
    /\ mutex = "free"

\* a run makes at most MaxCalls calls
CanCall == calls < MaxCalls

\* one more call is made
Called ==
    /\ CanCall
    /\ calls' = calls + 1
    /\ UNCHANGED <<pc, arg, local, mutex>>

\* the Keys calls are made with
Keys == {"k1", "k2"}

\* the handles lookups are made with: the ones the registry has allocated
Handles(w) == 1..w.res.lastHandle

\* a text that is a template, and one that is not (it leaves a variable
\* unclosed); as a constant string each is a value like any other
GoodText == <<"a">>

BadText == <<"{">>

\* the text Update writes
NewText == <<"b">>

\* Quantities values that parse, and one that does not
GoodQuantities == [NoQuantities EXCEPT !.One = <<"a">>, !.Other = <<"b">>]

NewQuantities == [NoQuantities EXCEPT !.Other = <<"n">>]

BadQuantities == [NoQuantities EXCEPT !.Few = <<"{">>]

\* the payloads of an add call of the given kind
Payloads(kind) ==
    CASE kind = MessageString -> {GoodText}
      [] kind = MessageVarString -> {GoodText, BadText}
      [] kind = MessageQuantities -> {GoodQuantities, BadQuantities}

\* the value maps of an add call over LangTags as the sequences of
\* <<tag, payload>> in which Go can iterate them
ValueSeqs(kind) ==
    {<<>>}
    \cup {<<<<t, p>>>> : t \in LangTags, p \in Payloads(kind)}
    \cup {vs \in {<<<<t, p>>, <<u, q>>>> :
                    t \in LangTags, u \in LangTags,
                    p \in Payloads(kind), q \in Payloads(kind)} :
            vs[1][1] # vs[2][1]}

\* the option lists of an add call: none, or one LocalizationHint
OptionLists == {<<>>, <<"hint">>}

\* the tag lists SetPriorities is called with
PriorityLists == {<<>>, <<"de">>, <<"en", "de">>, <<"fr">>}

\* the Kind and payload of the Messages Bundle.Update is called with
Messages ==
    {[NoMessage EXCEPT !.Key = k, !.Kind = t, !.Value = NewText] :
        k \in Keys \cup {""},
        t \in {MessageUndefined, MessageString, MessageVarString}}
    \cup {[NoMessage EXCEPT !.Key = k, !.Kind = MessageVarString,
                            !.Value = BadText] : k \in Keys}
    \cup {[NoMessage EXCEPT !.Key = k, !.Kind = MessageQuantities,
                            !.Quantities = q] :
        k \in Keys, q \in {NewQuantities, BadQuantities}}

\* the name of the add call that registers entries of a kind
AddOp(kind) ==
    CASE kind = MessageString -> "AddString"
      [] kind = MessageVarString -> "AddVarString"
      [] kind = MessageQuantities -> "AddQuantityString"

AddOps == {AddOp(k) : k \in LookupKinds}

\* the name of the Resources lookup that returns entries of a kind
MatchOp(kind) ==
    CASE kind = MessageString -> "MatchString"
      [] kind = MessageVarString -> "MatchVarString"
      [] kind = MessageQuantities -> "MatchQuantityString"

MatchOps == {MatchOp(k) : k \in LookupKinds}

\* the name of the Bundle lookup that returns entries of a kind
BundleOp(kind) ==
    CASE kind = MessageString -> "String"
      [] kind = MessageVarString -> "VarString"
      [] kind = MessageQuantities -> "QuantityString"

BundleOps == {BundleOp(k) : k \in LookupKinds}

\* what ret holds before the first call
NoCall ==
    [op |-> "none", key |-> "", tag |-> Und, hnd |-> 0, err |-> "nil",
     ok |-> FALSE, mutex |-> FALSE, kind |-> MessageUndefined,
     written |-> <<>>, vals |-> <<>>, on |-> "r", text |-> <<>>,
     str |-> <<>>, tokens |-> <<>>, tpl |-> NoTemplate, args |-> <<>>,
     quantity |-> 0, quantities |-> NoQuantities, matched |-> Und,
     from |-> Und]

Init ==
    /\ world = NewWorld
    /\ shadow = NewWorld
    /\ ret = NoCall
    /\ issued = NoMap
    /\ returned = {}
    /\ calls = 0
    /\ NoThreads

\* the return of an add call: a is what Add returned, s what it returned
\* on the shadow
AddReturns(kind, key, vals, a, s) ==
    /\ Called
    /\ world' = a.w
    /\ shadow' = s.w
    /\ ret' = [NoCall EXCEPT
                !.op = AddOp(kind), !.key = key, !.hnd = a.hnd, !.err = a.err,
                !.kind = IF a.err = "nil" THEN kind ELSE MessageUndefined,
                !.written = IF a.err = "nil" THEN vals ELSE <<>>,
                !.vals = IF a.err \in {"nil", "ErrExist"} THEN <<>> ELSE vals]
    /\ issued' = IF a.w.res.lastHandle # world.res.lastHandle
                 THEN (key :> a.w.res.lastHandle) @@ issued
                 ELSE issued
    /\ returned' = returned \cup {a.hnd}

\* r.AddString / AddVarString / AddQuantityString(key, values, opts...)
AddCall(kind, key, vals, opts) ==
    AddReturns(kind, key, vals, Add(world, kind, key, vals, opts),
               Add(shadow, kind, key, vals, opts))

\* the return of AddLanguage: a is what AddLanguage returned
AddLanguageReturns(tag, a, s) ==
    /\ Called
    /\ world' = a.w
    /\ shadow' = s.w
    /\ ret' = [NoCall EXCEPT !.op = "AddLanguage", !.tag = tag,
                             !.ok = a.created]
    /\ UNCHANGED <<issued, returned>>

\* r.AddLanguage(tag)
AddLanguageCall(tag) ==
    AddLanguageReturns(tag, AddLanguage(world, tag), AddLanguage(shadow, tag))

\* r.SetPriorities(tags...)
SetPrioritiesCall(tags) ==
    /\ Called
    /\ world' = SetPriorities(world, tags)
    /\ shadow' = SetPriorities(shadow, tags)
    /\ ret' = [NoCall EXCEPT !.op = "SetPriorities"]
    /\ UNCHANGED <<issued, returned>>

\* the payload of a Message that is stored as an entry of the given kind
PayloadOf(msg, kind) ==
    IF kind = MessageQuantities THEN msg.Quantities ELSE msg.Value

\* the return of Update: u is what Update returned, kind the kind it
\* stored the Message as
UpdateReturns(b, msg, kind, u, s) ==
    /\ Called
    /\ world' = u.w
    /\ shadow' = s.w
    /\ ret' = [NoCall EXCEPT
                !.op = "Update", !.key = msg.Key, !.tag = b, !.err = u.err,
                !.kind = IF u.err = "nil" THEN kind ELSE MessageUndefined,
                !.written = IF u.err = "nil"
                            THEN <<<<b, PayloadOf(msg, kind)>>>> ELSE <<>>]
    /\ UNCHANGED <<issued, returned>>

\* b.Update(msg) on a Bundle b of the registry
UpdateCall(b, msg) ==
    /\ CanCall
    /\ \E expectedType \in MessageType(world, msg.Key) :
       \E checkedType \in MessageType(world, msg.Key) :
         UpdateReturns(b, msg,
                       IF msg.Kind = MessageUndefined
                       THEN expectedType ELSE msg.Kind,
                       Update(world, b, msg, expectedType, checkedType),
                       Update(shadow, b, msg, expectedType, checkedType))

\* r.Flush()
FlushCall ==
    /\ Called
    /\ world' = Flush(world)
    /\ ret' = [NoCall EXCEPT !.op = "Flush"]
    /\ UNCHANGED <<shadow, issued, returned>>

\* the return of a lookup: m is what it returned, s the registry it left
\* of the shadow
LookupReturns(op, tag, hnd, m, s) ==
    /\ Called
    /\ world' = m.w
    /\ shadow' = s
    /\ ret' = [NoCall EXCEPT !.op = op, !.tag = tag, !.hnd = hnd,
                             !.ok = m.ok, !.mutex = m.mutex]
    /\ UNCHANGED <<issued, returned>>

\* r.MatchBundle(tag)
MatchBundleCall(tag) ==
    LookupReturns("MatchBundle", tag, 0, MatchBundle(world, tag),
                  MatchBundle(shadow, tag).w)

\* r.MatchString / MatchVarString / MatchQuantityString(tag, hnd)
MatchCall(kind, tag, hnd) ==
    /\ CanCall
    /\ \E m \in MatchKind(world, kind, tag, hnd) :
         LookupReturns(MatchOp(kind), tag, hnd, m, MatchBundle(shadow, tag).w)

\* b.String / VarString / QuantityString(id) on a Bundle b of the registry
BundleCall(kind, b, id) ==
    /\ CanCall
    /\ \E m \in BundleKind(world, kind, b, id) :
         LookupReturns(BundleOp(kind), b, id, m, shadow)

\* the calls that register: the add calls with option lists from optss
AddCalls(optss) ==
    \E kind \in LookupKinds, key \in Keys, opts \in optss :
        \E vals \in ValueSeqs(kind) : AddCall(kind, key, vals, opts)

Next ==
    \/ AddCalls({<<>>})
    \/ \E tag \in LangTags : AddLanguageCall(tag)
    \/ \E tags \in PriorityLists : SetPrioritiesCall(tags)
    \/ \E b \in Children(world), msg \in Messages : UpdateCall(b, msg)
    \/ FlushCall
    \/ \E tag \in AllTags : MatchBundleCall(tag)
    \/ \E kind \in LookupKinds, tag \in AllTags, hnd \in Handles(world) :
            MatchCall(kind, tag, hnd)
    \/ \E kind \in LookupKinds, b \in Children(world), id \in Handles(world) :
            BundleCall(kind, b, id)

\* a registry used by one thread, or by threads that call it one at a time
Spec == Init /\ [][Next]_vars

\* the same with add calls that carry a LocalizationHint
NextHints ==
    \/ AddCalls(OptionLists)
    \/ \E tag \in LangTags : AddLanguageCall(tag)
    \/ \E tags \in PriorityLists : SetPrioritiesCall(tags)
    \/ FlushCall

SpecHints == Init /\ [][NextHints]_vars

\* ------------------------------------------------- a registry and its clone

\* the registries the runs with a Clone start on: r.AddString("k1", values)
\* made on a new one, with one language or with two
CloneStarts ==
    {Add(NewWorld, MessageString, "k1", vals, <<>>).w :
        vals \in {<<<<"de", GoodText>>>>,
                  <<<<"de", GoodText>>, <<"en", GoodText>>>>}}

InitClone ==
    /\ world \in CloneStarts
    /\ shadow = world
    /\ ret = NoCall
    /\ issued = ("k1" :> 1)
    /\ returned = {1}
    /\ calls = 0
    /\ NoThreads

\* the values of the add calls of these runs: one language, a payload that
\* parses
OneValue(kind) ==
    {<<<<t, IF kind = MessageQuantities THEN GoodQuantities ELSE GoodText>>>> :
        t \in LangTags}

\* the Messages of the Update calls of these runs
CloneMessages ==
    {[NoMessage EXCEPT !.Key = k, !.Kind = t, !.Value = NewText] :
        k \in Keys, t \in {MessageUndefined, MessageString}}

\* the state as the registry under test reaches it
Source(w) == IF w.self = "r" THEN w ELSE Other(w)

\* c := r.Clone()
CloneCall ==
    /\ Called
    /\ ~world.cloned
    /\ world' = Clone(world)
    /\ ret' = [NoCall EXCEPT !.op = "Clone"]
    /\ UNCHANGED <<shadow, issued, returned>>

\* the return of a call made on the clone or on a Bundle got from it: w is
\* the state it left, seen from either registry
CloneReturns(w, r) ==
    /\ Called
    /\ world.cloned
    /\ world' = Source(w)
    /\ ret' = [r EXCEPT !.on = "c"]
    /\ UNCHANGED <<shadow, issued, returned>>

\* the return of an add call on the clone: a is what Add returned
CloneAddReturns(kind, key, a) ==
    CloneReturns(a.w, [NoCall EXCEPT !.op = AddOp(kind), !.key = key,
                                     !.hnd = a.hnd, !.err = a.err])

\* c.AddString / AddVarString / AddQuantityString(key, values)
CloneAddCall(kind, key, vals) ==
    CloneAddReturns(kind, key, Add(Other(world), kind, key, vals, <<>>))

\* the return of AddLanguage on the clone: a is what AddLanguage returned
CloneAddLanguageReturns(tag, a) ==
    CloneReturns(a.w, [NoCall EXCEPT !.op = "AddLanguage", !.tag = tag,
                                     !.ok = a.created])

\* c.AddLanguage(tag)
CloneAddLanguageCall(tag) ==
    CloneAddLanguageReturns(tag, AddLanguage(Other(world), tag))

\* c.SetPriorities(tags...)
CloneSetPrioritiesCall(tags) ==
    CloneReturns(SetPriorities(Other(world), tags),
                 [NoCall EXCEPT !.op = "SetPriorities"])

\* c.Flush()
CloneFlushCall ==
    CloneReturns(Flush(Other(world)), [NoCall EXCEPT !.op = "Flush"])

\* the return of Update on a Bundle got from the clone: u is what Update
\* returned
CloneUpdateReturns(tag, msg, u) ==
    CloneReturns(u.w, [NoCall EXCEPT !.op = "Update", !.key = msg.Key,
                                     !.tag = tag, !.err = u.err])

\* b.Update(msg) of the Bundle b that c.Bundle(tag) returned: Update works
\* on b.parent
CloneUpdateOf(tag, b, msg, pw) ==
    \E expectedType \in MessageType(pw, msg.Key) :
    \E checkedType \in MessageType(pw, msg.Key) :
        CloneUpdateReturns(tag, msg,
                           Update(pw, b, msg, expectedType, checkedType))

\* b, ok := c.Bundle(tag); b.Update(msg)
CloneUpdateCall(tag, msg) ==
    /\ CanCall
    /\ world.cloned
    /\ GetChild(Other(world), tag).ok
    /\ CloneUpdateOf(tag, GetChild(Other(world), tag).v, msg,
                     ParentWorld(Other(world), GetChild(Other(world), tag).v))

NextClone ==
    \/ \E kind \in LookupKinds, key \in Keys :
        \E vals \in OneValue(kind) : AddCall(kind, key, vals, <<>>)
    \/ \E tag \in LangTags : AddLanguageCall(tag)
    \/ \E tags \in PriorityLists : SetPrioritiesCall(tags)
    \/ \E b \in Children(world), msg \in CloneMessages : UpdateCall(b, msg)
    \/ FlushCall
    \/ CloneCall
    \/ \E kind \in LookupKinds, key \in Keys :
        \E vals \in OneValue(kind) : CloneAddCall(kind, key, vals)
    \/ \E tag \in LangTags : CloneAddLanguageCall(tag)
    \/ \E tags \in PriorityLists : CloneSetPrioritiesCall(tags)
    \/ \E tag \in LangTags, msg \in CloneMessages : CloneUpdateCall(tag, msg)
    \/ CloneFlushCall

\* a registry, the clone a Clone call makes of it, and the calls made on
\* either of them, one at a time
SpecClone == InitClone /\ [][NextClone]_vars

\* ------------------------------------------- calls at the same time

\* the registry the threads start on: r.AddString("k1", {de: "a"}) made
\* on a new one
StartWorld ==
    Add(NewWorld, MessageString, "k1", <<<<"de", GoodText>>>>, <<>>).w

\* the calls a thread makes: SetPriorities, AddLanguage, or Update on the
\* Bundle of "de"
ThreadCalls ==
    {[NoThreadCall EXCEPT !.op = "SetPriorities", !.tags = tags] :
        tags \in {<<"de">>, <<"en">>}}
    \cup {[NoThreadCall EXCEPT !.op = "AddLanguage", !.tag = tag] :
        tag \in LangTags}
    \cup {[NoThreadCall EXCEPT !.op = "Update", !.tag = "de", !.msg = msg] :
        msg \in {m \in Messages :
                    m.Key = "k1" /\ m.Kind \in {MessageString,
                                                 MessageVarString}}}

InitThreads ==
    /\ world = StartWorld
    /\ shadow = StartWorld
    /\ ret = NoCall
    /\ issued = NoMap
    /\ returned = {}
    /\ calls = 0
    /\ pc = [t \in Threads |-> "start"]
    /\ arg \in [Threads -> ThreadCalls]
    /\ local = [t \in Threads |-> NoLocal]
    /\ mutex = "free"

\* thread t is at statement at of a call of op and goes on to statement to
Goes(t, op, at, to) ==
    /\ arg[t].op = op
    /\ pc[t] = at
    /\ pc' = [pc EXCEPT ![t] = to]
    /\ UNCHANGED <<shadow, ret, issued, returned, calls, arg>>

\* SetPriorities: r.priorities.Clear()
SetPrioritiesClear(t) ==
    /\ Goes(t, "SetPriorities", "start", "append")
    /\ world' = [world EXCEPT !.res.priorities = SliceClear(@)]
    /\ UNCHANGED <<local, mutex>>

\* SetPriorities: r.priorities.Append(tags...)
SetPrioritiesAppend(t) ==
    /\ Goes(t, "SetPriorities", "append", "store")
    /\ world' = [world EXCEPT !.res.priorities = SliceAppend(@, arg[t].tags)]
    /\ UNCHANGED <<local, mutex>>

\* SetPriorities: r.matcher.Store(nil)
SetPrioritiesStore(t) ==
    /\ Goes(t, "SetPriorities", "store", "done")
    /\ world' = [world EXCEPT !.res.matcher = NoMatcher]
    /\ UNCHANGED <<local, mutex>>

\* AddLanguage: r.mutex.Lock()
AddLanguageLock(t) ==
    /\ mutex = "free"
    /\ Goes(t, "AddLanguage", "start", "get")
    /\ mutex' = t
    /\ UNCHANGED <<world, local>>

\* AddLanguage: bnd, ok := r.children.Get(tag); if ok { return bnd, false }
AddLanguageGet(t) ==
    /\ Goes(t, "AddLanguage", "get",
            IF GetChild(world, arg[t].tag).ok THEN "unlock" ELSE "append")
    /\ UNCHANGED <<world, local, mutex>>

\* AddLanguage: bnd = newBundle(r, tag); r.priorities.Append(tag)
AddLanguageAppend(t) ==
    /\ Goes(t, "AddLanguage", "append", "clear")
    /\ world' = [world EXCEPT !.bundles[arg[t].tag] = NewSlice,
                              !.res.priorities = SliceAppend(@, <<arg[t].tag>>)]
    /\ UNCHANGED <<local, mutex>>

\* AddLanguage: r.clearMatcher()
AddLanguageClear(t) ==
    /\ Goes(t, "AddLanguage", "clear", "put")
    /\ world' = [world EXCEPT !.res.matcher = NoMatcher]
    /\ UNCHANGED <<local, mutex>>

\* AddLanguage: r.children.Put(tag, bnd)
AddLanguagePut(t) ==
    /\ Goes(t, "AddLanguage", "put", "unlock")
    /\ world' = [world EXCEPT
                    !.res.children = MapPut(@, arg[t].tag, arg[t].tag)]
    /\ UNCHANGED <<local, mutex>>

\* AddLanguage: the deferred r.mutex.Unlock()
AddLanguageUnlock(t) ==
    /\ mutex = t
    /\ Goes(t, "AddLanguage", "unlock", "done")
    /\ mutex' = "free"
    /\ UNCHANGED <<world, local>>

\* Update: the check of msg.Key and hnd, ok := reverseHandles.Get(msg.Key)
UpdateGet(t) ==
    /\ Goes(t, "Update", "start",
            IF arg[t].msg.Key = "" \/ ~GetHandle(world, arg[t].msg.Key).ok
            THEN "done" ELSE "type")
    /\ local' = [local EXCEPT
                    ![t].hnd = GetHandle(world, arg[t].msg.Key).v,
                    ![t].err = IF arg[t].msg.Key = "" THEN "without key"
                               ELSE IF ~GetHandle(world, arg[t].msg.Key).ok
                               THEN "no handle" ELSE "nil"]
    /\ UNCHANGED <<world, mutex>>

\* Update: expectedType := b.parent.MessageType(msg.Key), and the Kind and
\* requiresInsert it sets for an undefined msg.Kind
UpdateType(t) ==
    /\ Goes(t, "Update", "type", "at")
    /\ \E expectedType \in MessageType(world, arg[t].msg.Key) :
        local' = [local EXCEPT
                    ![t].expectedType = expectedType,
                    ![t].kind = IF arg[t].msg.Kind = MessageUndefined
                                THEN expectedType ELSE arg[t].msg.Kind,
                    ![t].requiresInsert = arg[t].msg.Kind = MessageUndefined]
    /\ UNCHANGED <<world, mutex>>

\* Update: if !requiresInsert { if _, ok := b.strings.At(hnd); !ok { ... } }
UpdateAt(t) ==
    /\ Goes(t, "Update", "at", "check")
    /\ local' = [local EXCEPT
                    ![t].requiresInsert =
                        @ \/ ~StringsAt(world, arg[t].tag, local[t].hnd).ok]
    /\ UNCHANGED <<world, mutex>>

\* Update: if b.parent.MessageType(msg.Key) != msg.Kind { return error }
UpdateCheck(t) ==
    /\ \E checkedType \in MessageType(world, arg[t].msg.Key) :
        /\ Goes(t, "Update", "check",
                IF checkedType # local[t].kind THEN "done" ELSE "read")
        /\ local' = [local EXCEPT
                        ![t].err = IF checkedType # local[t].kind
                                   THEN "type mismatch" ELSE "nil"]
    /\ UNCHANGED <<world, mutex>>

\* Update: the entry read for the update, data.kind = expectedType
UpdateRead(t) ==
    /\ Goes(t, "Update", "read", "set")
    /\ local' = [local EXCEPT
                    ![t].data = UpdateData(
                        StringsAt(world, arg[t].tag, local[t].hnd),
                        local[t].requiresInsert, local[t].expectedType)]
    /\ UNCHANGED <<world, mutex>>

\* the return of Update: u is what its switch and b.strings.Set returned
UpdateSets(t, u) ==
    /\ Goes(t, "Update", "set", "done")
    /\ world' = u.w
    /\ local' = [local EXCEPT ![t].err = u.err]
    /\ UNCHANGED mutex

\* Update: the switch over msg.Kind and b.strings.Set(hnd, data)
UpdateSet(t) ==
    UpdateSets(t, UpdateStore(world, arg[t].tag, local[t].hnd, local[t].kind,
                              arg[t].msg, local[t].data))

NextThreads ==
    \E t \in Threads :
        \/ SetPrioritiesClear(t)
        \/ SetPrioritiesAppend(t)
        \/ SetPrioritiesStore(t)
        \/ AddLanguageLock(t)
        \/ AddLanguageGet(t)
        \/ AddLanguageAppend(t)
        \/ AddLanguageClear(t)
        \/ AddLanguagePut(t)
        \/ AddLanguageUnlock(t)
        \/ UpdateGet(t)
        \/ UpdateType(t)
        \/ UpdateAt(t)
        \/ UpdateCheck(t)
        \/ UpdateRead(t)
        \/ UpdateSet(t)

\* two threads that each make one registration call on the same registry
SpecThreads == InitThreads /\ [][NextThreads]_vars

\* the registries a call made alone can leave
Alone(w, call) ==
    CASE call.op = "SetPriorities" -> {SetPriorities(w, call.tags)}
      [] call.op = "AddLanguage" -> {AddLanguage(w, call.tag).w}
      [] call.op = "Update" ->
            {Update(w, call.tag, call.msg, expectedType, checkedType).w :
                expectedType \in MessageType(w, call.msg.Key),
                checkedType \in MessageType(w, call.msg.Key)}

\* the registries the call first and then the call second can leave
OneAfterTheOther(w, first, second) ==
    UNION {Alone(w1, second) : w1 \in Alone(w, first)}

\* ------------------------------------------------------------ properties

\* the errors the template parser reports
ParseErrors == {"invalid variable name", "unclosed variable"}

Defining(w, hnd) == {b \in Children(w) : Defines(w, b, hnd)}

\* C2: when exactly one Bundle a defines a handle, the lookup of the kind
\* of that entry through any other Bundle b of the registry finds a's
\* entry, in every reachable state.
C2_FallsThroughToOnlyLanguage ==
    \A hnd \in Handles(world), a \in Children(world), b \in Children(world) :
        (a # b /\ Defining(world, hnd) = {a}) =>
            \A m \in BundleKind(world, StringsAt(world, a, hnd).v.kind, b, hnd) :
                m.ok /\ m.data = StringsAt(world, a, hnd).v

\* C2 witness: a Bundle lookup through ret.tag found the entry that only
\* another Bundle defines, one that the priority list does not name
C2_Witness ==
    /\ ret.op \in BundleOps
    /\ ret.ok
    /\ \E a \in Children(world) :
        /\ a # ret.tag
        /\ Defining(world, ret.hnd) = {a}
        /\ ~Contains(SliceAll(world.res.priorities), a)

\* the kinds of the entries the Bundles hold at hnd
KindsAt(w, hnd) ==
    {StringsAt(w, b, hnd).v.kind : b \in Defining(w, hnd)}

\* C3, as stated: a MatchString / MatchVarString / MatchQuantityString call
\* finds the handle for every tag when some Bundle holds an entry of that
\* kind for it.
C3_FoundForEveryTag ==
    \A kind \in LookupKinds :
        (ret.op = MatchOp(kind) /\ kind \in KindsAt(world, ret.hnd)) => ret.ok

\* C4, as stated: MatchBundle returns a Bundle for every tag when the
\* registry holds at least one Bundle.
C4_AlwaysABundle ==
    (ret.op = "MatchBundle" /\ Children(world) # {}) => ret.ok

\* C5, as stated: Update returns an error and changes nothing whenever
\* msg.Kind is not the kind established for msg.Key, an undefined msg.Kind
\* included.
C5_AnyOtherKindFails ==
    [][\A b \in Children(world), msg \in Messages :
        (/\ ret'.op = "Update"
         /\ msg.Kind \notin MessageType(world, msg.Key)
         /\ UpdateCall(b, msg))
            => (ret'.err # "nil" /\ world' = world)]_vars

\* C5, as the Bundle behaves: Update returns an error and changes nothing
\* whenever msg.Kind is defined and is not the kind established for
\* msg.Key; an undefined msg.Kind stands for the established kind, and the
\* Update then fails only on its Key or its payload.
C5_KindIsFixed ==
    [][\A b \in Children(world), msg \in Messages :
        (ret'.op = "Update" /\ UpdateCall(b, msg)) =>
            /\ (/\ msg.Kind # MessageUndefined
                /\ msg.Kind \notin MessageType(world, msg.Key))
                    => (ret'.err # "nil" /\ world' = world)
            /\ (/\ msg.Kind = MessageUndefined
                /\ MessageType(world, msg.Key) # {MessageUndefined})
                    => ret'.err \in {"nil"} \cup ParseErrors]_vars

\* C5 witness: an Update was refused for the Kind of its Message
C5_Witness == ret.op = "Update" /\ ret.err = "type mismatch"

\* C6: an Update that fails on an empty Key, on a Key without handle or on
\* a payload that does not parse leaves the registry and the Bundle as
\* they were: handles, Key mappings, entries and dirty flags.
C6_FailedUpdateChangesNothing ==
    [][(/\ ret'.op = "Update"
        /\ ret'.err \in {"without key", "no handle"} \cup ParseErrors)
            => (world' = world /\ issued' = issued)]_vars

\* C6 witness: an Update of a registered Key failed on its payload in a
\* Bundle whose container a Flush had left clean
C6_Witness ==
    /\ ret.op = "Update"
    /\ ret.err \in ParseErrors
    /\ ret.key \in DOMAIN issued
    /\ ~world.bundles[ret.tag].dirty

\* Bundle.fuzzyMessage(hnd) of Bundle b, by the entry it renders
fuzzyMessage(w, b, hnd) ==
    IF StringsAt(w, b, hnd).ok /\ StringsAt(w, b, hnd).v.kind \in LookupKinds
    THEN [data |-> StringsAt(w, b, hnd).v, ok |-> TRUE]
    ELSE [data |-> ZeroStrData, ok |-> FALSE]

\* what a set of lookup results lets the caller see
Answers(ms) == {[data |-> m.data, ok |-> m.ok] : m \in ms}

\* Bundle.Resolve(text) of Bundle b for a text that is a Key, by the entry
\* it renders; ok is FALSE where it returns the text as it is
Resolve(w, b, key) ==
    IF ~GetHandle(w, key).ok THEN {[data |-> ZeroStrData, ok |-> FALSE]}
    ELSE IF fuzzyMessage(w, b, GetHandle(w, key).v).ok
    THEN {fuzzyMessage(w, b, GetHandle(w, key).v)}
    ELSE Answers(MatchKind(w, MessageString, BundleTag(b),
                           GetHandle(w, key).v))

\* what every lookup returns in registry w
Visible(w) ==
    [children |-> Children(w),
     matchBundle |-> [tag \in AllTags |->
        [b |-> MatchBundle(w, tag).b, ok |-> MatchBundle(w, tag).ok]],
     match |-> [kind \in LookupKinds, tag \in AllTags,
                hnd \in 1..Cardinality(Keys) |->
        Answers(MatchKind(w, kind, tag, hnd))],
     bundle |-> [kind \in LookupKinds, b \in AllTags,
                 hnd \in 1..Cardinality(Keys) |->
        IF b \in Children(w) THEN Answers(BundleKind(w, kind, b, hnd))
        ELSE {}],
     resolve |-> [b \in AllTags, key \in Keys |->
        IF b \in Children(w) THEN Resolve(w, b, key) ELSE {}]]

\* the payload an entry was made of
RawOf(data) ==
    CASE data.kind = MessageString -> data.constStr
      [] data.kind = MessageVarString -> data.template.raw
      [] data.kind = MessageQuantities -> data.quantityTemplates.raw
      [] OTHER -> <<>>

\* the next lookup through Bundle b sees the payload an add call or an
\* Update has just written for hnd
SeesWritten(w, b, hnd, kind, payload) ==
    \A m \in BundleKind(w, kind, b, hnd) :
        m.ok /\ m.data.kind = kind /\ RawOf(m.data) = payload

\* C7: every lookup returns the same with the Flush calls of a run as
\* without them, and the payloads that the last add call or Update has
\* written are what the next lookup returns, flushed or not.
C7_FlushIsInvisible ==
    /\ Visible(world) = Visible(shadow)
    /\ \A i \in 1..Len(ret.written) :
        SeesWritten(world, ret.written[i][1], issued[ret.key], ret.kind,
                    ret.written[i][2])

\* C7 witness: an Update wrote an entry into a Bundle whose snapshot an
\* earlier Flush had published
C7_Witness ==
    /\ ret.op = "Update"
    /\ ret.err = "nil"
    /\ world.bundles[ret.tag].read # shadow.bundles[ret.tag].read

\* every container the registry owns is clean
AllClean(w) ==
    /\ ~w.res.children.dirty
    /\ \A b \in Children(w) : ~w.bundles[b].dirty
    /\ ~w.res.handles.dirty
    /\ ~w.res.reverseHandles.dirty
    /\ ~w.res.priorities.dirty
    /\ ~w.res.keyDescriptions.dirty

\* C8, as stated: when Resources.Flush has returned and nothing was written
\* since, every container of the registry is clean.
C8_FlushCleansAll == ret.op = "Flush" => AllClean(world)

\* the lookups of the registry and of its Bundles
LookupOps == {"MatchBundle"} \cup MatchOps \cup BundleOps

C10_Serialized ==
    (\A t \in Threads : pc[t] = "done" /\ arg[t].op # "none") =>
        world \in OneAfterTheOther(StartWorld, arg["t1"], arg["t2"])
                    \cup OneAfterTheOther(StartWorld, arg["t2"], arg["t1"])

\* the position of the first value from i on that does not parse, or
\* Len(vals) + 1 when all parse
RECURSIVE FirstFailing(_, _, _)
FirstFailing(kind, vals, i) ==
    IF i > Len(vals) \/ MakeStrData(kind, vals[i][2]).err # "nil" THEN i
    ELSE FirstFailing(kind, vals, i + 1)

\* an add call of the given kind that went through vals and stopped at
\* position f on a value that does not parse: it returned that parse error,
\* the languages before f hold their entry at hnd in w1, and the Bundles of
\* the languages after f are in w1 what they were in w
StoppedAt(w, w1, kind, vals, hnd, err, f) ==
    /\ f <= Len(vals)
    /\ err = MakeStrData(kind, vals[f][2]).err
    /\ \A j \in 1..(f - 1) :
        StringsAt(w1, vals[j][1], hnd) =
            [v |-> MakeStrData(kind, vals[j][2]).data, ok |-> TRUE]
    /\ \A j \in (f + 1)..Len(vals) :
        /\ w1.bundles[vals[j][1]] = w.bundles[vals[j][1]]
        /\ GetChild(w1, vals[j][1]) = GetChild(w, vals[j][1])

\* C11: an AddVarString or AddQuantityString call that fails to parse the
\* value of one language returns that parse error; every language it went
\* through before keeps the entry the call wrote for the Key, and no
\* language after the failing one is written.
C11_NoRollback ==
    [][\A kind \in {MessageVarString, MessageQuantities} :
        (ret'.op = AddOp(kind) /\ ret'.err \in ParseErrors) =>
            StoppedAt(world, world', kind, ret'.vals, issued'[ret'.key],
                      ret'.err, FirstFailing(kind, ret'.vals, 1))]_vars

\* C11 witness: an AddQuantityString call wrote the entry of its first
\* language, failed on the value of its second and left the first written
C11_Witness ==
    /\ ret.op = "AddQuantityString"
    /\ ret.err \in ParseErrors
    /\ Len(ret.vals) = 2
    /\ FirstFailing(MessageQuantities, ret.vals, 1) = 2
    /\ StringsAt(world, ret.vals[1][1], issued[ret.key]).ok

\* the handles a run can allocate in a registry
MaxHandle == MaxCalls + 1

\* what the Bundle that w.Bundle(tag) returns answers to String / VarString
\* / QuantityString(hnd); nothing when there is no such Bundle
ThroughBundle(w, kind, b, hnd) ==
    IF ~b.ok THEN {}
    ELSE Answers(BundleKind(ParentWorld(w, b.v), kind, b.v, hnd))

\* what registry w answers: Bundle(tag), MatchBundle(tag) by the tag of the
\* Bundle, the lookups through its Bundles, the Key and handle mappings,
\* the hints and Priorities()
Seen(w) ==
    [bundle |-> [tag \in AllTags |-> GetChild(w, tag).ok],
     matchBundle |-> [tag \in AllTags |->
        IF MatchBundle(w, tag).ok THEN BundleTag(MatchBundle(w, tag).b)
        ELSE Und],
     strings |-> [kind \in LookupKinds, tag \in AllTags, hnd \in 1..MaxHandle |->
        ThroughBundle(w, kind, GetChild(w, tag), hnd)],
     handles |-> [key \in Keys |-> GetHandle(w, key)],
     keys |-> [hnd \in 1..MaxHandle |-> MapGet(w.res.handles, hnd, "")],
     hints |-> [key \in Keys |-> MapGet(w.res.keyDescriptions, key, "").v],
     priorities |-> SliceAll(w.res.priorities)]

\* C12, as stated: right after Clone has returned, the clone answers
\* Bundle, MatchBundle, the lookups, the Key and handle mappings, the hints
\* and Priorities as the registry it was made of does.
C12_CloneAnswersAsSource ==
    ret.op = "Clone" => Seen(Other(world)) = Seen(world)

\* the calls that register or publish
WritingOps == AddOps \cup {"Update", "AddLanguage", "SetPriorities", "Flush"}

\* every Bundle registry w holds has w as its parent
OwnsItsBundles(w) ==
    \A tag \in AllTags :
        GetChild(w, tag).ok => BundleParent(GetChild(w, tag).v) = w.self

\* C13, as stated: once the clone is made, a registering call or a Flush
\* on one of the two registries changes no answer of the other, and the
\* Bundles of the clone have the clone as their parent.
C13_Independent ==
    [][(world.cloned /\ ret'.op \in WritingOps) =>
        /\ OwnsItsBundles(Other(world'))
        /\ IF ret'.on = "r"
           THEN Seen(Other(world')) = Seen(Other(world))
           ELSE Seen(world') = Seen(world)]_vars

\* ------------------------------------------------ Bundle.Resolve on a text

\* the decimal digits; the digit of value d stands at position d + 1
DigitChars == <<"0", "1", "2", "3", "4", "5", "6", "7", "8", "9">>

\* strconv.Itoa(v): the decimal digits of v, "-" before those of a
\* negative number
RECURSIVE Itoa(_)
Itoa(v) ==
    IF v < 0 THEN <<"-">> \o Itoa(0 - v)
    ELSE IF v < 10 THEN <<DigitChars[v + 1]>>
    ELSE Itoa(v \div 10) \o <<DigitChars[(v % 10) + 1]>>

\* formatStrHnd(v), which is also what StrHnd.String() returns
formatStrHnd(v) == <<"@">> \o Itoa(v)

\* whether ch is a decimal digit
IsDigit(ch) == \E d \in 1..Len(DigitChars) : DigitChars[d] = ch

\* the value of a decimal digit
DigitValue(ch) == (CHOOSE d \in 1..Len(DigitChars) : DigitChars[d] = ch) - 1

\* the value of a sequence of decimal digits read after the value acc
RECURSIVE DigitsValue(_, _)
DigitsValue(s, acc) ==
    IF s = <<>> THEN acc
    ELSE DigitsValue(Tail(s), (10 * acc) + DigitValue(Head(s)))

\* strconv.Atoi(s): [v, ok]; ok is FALSE where it returns an error.  A
\* number is a sign, or none, and at least one digit.
Unsigned(s) ==
    IF s # <<>> /\ \A i \in 1..Len(s) : IsDigit(s[i])
    THEN [v |-> DigitsValue(s, 0), ok |-> TRUE]
    ELSE [v |-> 0, ok |-> FALSE]

Atoi(s) ==
    IF s # <<>> /\ Head(s) = "-"
    THEN [v |-> 0 - Unsigned(Tail(s)).v, ok |-> Unsigned(Tail(s)).ok]
    ELSE IF s # <<>> /\ Head(s) = "+" THEN Unsigned(Tail(s))
    ELSE Unsigned(s)

\* a Key as a text: the name of a Key stands in a text as one character
KeyText(key) == <<key>>

\* Key(text): the conversion back; a text of another length is no Key of
\* the registry
TextKey(text) == IF Len(text) = 1 THEN text[1] ELSE ""

\* strings.HasPrefix(text, prefix)
HasPrefix(text, prefix) ==
    Len(text) >= Len(prefix) /\ SubSeq(text, 1, Len(prefix)) = prefix

\* the kinds of Attr
attrInt == "attrInt"

attrStr == "attrStr"

attrQuantity == "attrQuantity"

\* Plural(quantity); the quantity stands for the bits valI holds
Plural(quantity) ==
    [name |-> <<>>, valI |-> quantity, valS |-> <<>>, kind |-> attrQuantity]

\* String(name, value)
StringAttr(name, value) ==
    [name |-> name, valI |-> 0, valS |-> value, kind |-> attrStr]

\* Int(name, value)
IntAttr(name, value) ==
    [name |-> name, valI |-> value, valS |-> <<>>, kind |-> attrInt]

\* fmt.Sprintf("%f", quantity) of a whole quantity: six decimals
FormatFloat(quantity) ==
    Itoa(quantity) \o <<".", "0", "0", "0", "0", "0", "0">>

\* Attr.String()
AttrString(a) ==
    CASE a.kind = attrQuantity -> FormatFloat(a.valI)
      [] a.kind = attrInt -> Itoa(a.valI)
      [] OTHER -> a.valS

\* the loop of part.string over args from position i on: the string of the
\* first attribute of that name, the name itself when there is none
RECURSIVE FirstNamed(_, _, _)
FirstNamed(value, args, i) ==
    IF i > Len(args) THEN value
    ELSE IF args[i].name = value THEN AttrString(args[i])
    ELSE FirstNamed(value, args, i + 1)

\* a part.string that looks for an attribute whatever the token is
partStringAnyToken(p, args) == FirstNamed(p.Value, args, 1)

\* part.string(args)
partString(p, args) ==
    IF p.Type = VarToken THEN FirstNamed(p.Value, args, 1) ELSE p.Value

\* the loop of Template.Execute over t.parts from position i on
RECURSIVE WriteParts(_, _, _, _)
WriteParts(parts, args, i, tmp) ==
    IF i > Len(parts) THEN tmp
    ELSE WriteParts(parts, args, i + 1, tmp \o partString(parts[i], args))

\* Template.Execute(args...)
ExecuteArgs(t, args) ==
    IF Len(t.parts) = 0 THEN <<>>
    ELSE IF Len(args) = 0 /\ Len(t.parts) = 1
    THEN partString(t.parts[1], args)
    ELSE WriteParts(t.parts, args, 1, <<>>)

\* an Execute that returns the text the Template was parsed from
ExecuteRaw(t) == t.raw

\* Template.Execute() without attributes
Execute(t) == ExecuteArgs(t, <<>>)

\* a MatchPlural that counts in every language as English does
PluralFormOfEnglish(tag, quantity) == IF quantity = 1 THEN 3 ELSE 1

\* plural.Cardinal.MatchPlural(tag, i, 0, 0, 0, 0) for a whole quantity i
\* as the 1-based position in PluralForms: German and English count 1 as
\* One, French 0 and 1, and each of them every other quantity as Other
PluralForm(tag, quantity) ==
    IF quantity = 1 \/ (quantity = 0 /\ TagBase(tag) = "fr") THEN 3 ELSE 1

\* the form of the quantity 0
ZeroForm(tag) == PluralForm(tag, 0)

\* a quantityTemplates.execute that takes the Other template where the
\* one of the form has no parts
quantityExecuteOther(q, tag, quantity, args) ==
    IF q.templates[PluralForm(tag, quantity)].parts = <<>>
    THEN ExecuteArgs(q.templates[1], args)
    ELSE ExecuteArgs(q.templates[PluralForm(tag, quantity)], args)

\* quantityTemplates.execute(tag, quantity, attr...) for a whole quantity
quantityExecute(q, tag, quantity, args) ==
    ExecuteArgs(q.templates[PluralForm(tag, quantity)], args)

\* quantityTemplates.execute(tag, 0): no attribute carries a quantity
QuantityExecute(q, tag) == quantityExecute(q, tag, 0, <<>>)

\* the string a lookup makes of the entry data in a Bundle of the given tag
Render(data, tag) ==
    CASE data.kind = MessageString -> data.constStr
      [] data.kind = MessageVarString -> Execute(data.template)
      [] data.kind = MessageQuantities ->
            QuantityExecute(data.quantityTemplates, tag)
      [] OTHER -> <<>>

\* Resolve returns the string str it has not made of an entry
AsIs(w, locked, str) ==
    [w |-> w, mutex |-> locked, data |-> ZeroStrData, ok |-> FALSE,
     str |-> str]

\* Resolve returns the string it has made of the entry data
Rendered(w, locked, data, tag) ==
    [w |-> w, mutex |-> locked, data |-> data, ok |-> TRUE,
     str |-> Render(data, tag)]

\* the fallback of Resolve through b.parent.MatchString(b.tag, hnd)
ResolveMatch(w, b, text, hnd) ==
    {IF m.ok THEN Rendered(m.w, m.mutex, m.data, BundleTag(b))
     ELSE AsIs(m.w, m.mutex, text) :
        m \in MatchKind(w, MessageString, BundleTag(b), hnd)}

\* a second half of Resolve that registers a text it finds no Key for
ResolveKeyRegistering(w, b, text, hnd) ==
    IF ~hnd.ok THEN {AsIs(RegisterKey(w, TextKey(text)), FALSE, text)}
    ELSE IF fuzzyMessage(w, b, hnd.v).ok
    THEN {Rendered(w, FALSE, fuzzyMessage(w, b, hnd.v).data, BundleTag(b))}
    ELSE ResolveMatch(w, b, text, hnd.v)

\* the second half of Resolve: hnd is what b.parent.reverseHandles.Get
\* returned for Key(text)
ResolveKey(w, b, text, hnd) ==
    IF ~hnd.ok THEN {AsIs(w, FALSE, text)}
    ELSE IF fuzzyMessage(w, b, hnd.v).ok
    THEN {Rendered(w, FALSE, fuzzyMessage(w, b, hnd.v).data, BundleTag(b))}
    ELSE ResolveMatch(w, b, text, hnd.v)

\* the first half of Resolve for a text that starts with one "@": hnd is
\* what strconv.Atoi(text[1:]) returned
ResolveHandle(w, b, text, hnd) ==
    IF hnd.ok /\ fuzzyMessage(w, b, hnd.v).ok
    THEN {Rendered(w, FALSE, fuzzyMessage(w, b, hnd.v).data, BundleTag(b))}
    ELSE ResolveKey(w, b, text, GetHandle(w, TextKey(text)))

\* Bundle.Resolve(text) of Bundle b, whose parent is w, without
\* attributes: the set of [w, mutex, data, ok, str] with the returned
\* string str; ok tells that an entry was rendered
ResolveText(w, b, text) ==
    IF HasPrefix(text, <<"@", "@">>) THEN {AsIs(w, FALSE, Tail(text))}
    ELSE IF HasPrefix(text, <<"@">>)
    THEN ResolveHandle(w, b, text, Atoi(Tail(text)))
    ELSE ResolveKey(w, b, text, GetHandle(w, TextKey(text)))

\* the texts Resolve is called with: the Keys, the handles as StrHnd.String
\* writes them, an escaped handle, a lone "@", a text that is no Key
ResolveTexts ==
    {KeyText(key) : key \in Keys}
    \cup {formatStrHnd(hnd) : hnd \in 1..Cardinality(Keys)}
    \cup {<<"@", "@", "1">>, <<"@">>, <<"a", "b">>}

\* the return of Resolve: m is what it returned, s on the shadow
ResolveReturns(b, text, m, s) ==
    /\ Called
    /\ world' = m.w
    /\ shadow' = s.w
    /\ ret' = [NoCall EXCEPT !.op = "Resolve", !.tag = b, !.text = text,
                             !.ok = m.ok, !.mutex = m.mutex, !.str = m.str]
    /\ UNCHANGED <<issued, returned>>

\* b.Resolve(text) on a Bundle b of the registry
ResolveCall(b, text) ==
    /\ CanCall
    /\ \E m \in ResolveText(world, b, text) :
       \E s \in ResolveText(shadow, b, text) : ResolveReturns(b, text, m, s)

NextResolve ==
    \/ AddCalls({<<>>})
    \/ \E tag \in LangTags : AddLanguageCall(tag)
    \/ FlushCall
    \/ \E b \in Children(world), text \in ResolveTexts : ResolveCall(b, text)

\* a registry whose Bundles are asked to resolve texts
SpecResolve == Init /\ [][NextResolve]_vars

\* the strings Bundle.String(hnd) of Bundle b can return, the empty string
\* where it finds nothing
StringReturns(w, b, hnd) ==
    {IF m.ok THEN m.data.constStr ELSE <<>> :
        m \in BundleKind(w, MessageString, b, hnd)}

\* C14, as stated: for a handle that is a constant string in at least one
\* language, Resolve of the handle's text ("@" and the decimal handle) on a
\* Bundle returns the string Bundle.String of the handle returns on that
\* Bundle, also where this Bundle does not hold the handle.
C14_ResolveHandleAsString ==
    \A hnd \in Handles(world) :
        (/\ ret.op = "Resolve"
         /\ ret.text = formatStrHnd(hnd)
         /\ MessageString \in KindsAt(world, hnd))
        => ret.str \in StringReturns(world, ret.tag, hnd)

\* the strings Bundle.String / VarString / QuantityString(hnd) of Bundle b
\* return where they find an entry of their kind
LocalizedValues(w, b, hnd) ==
    {Render(m.data, BundleTag(b)) :
        m \in {n \in UNION {BundleKind(w, kind, b, hnd) : kind \in LookupKinds} :
                n.ok}}

\* C15, as stated: Resolve of a text that is a registered Key returns the
\* localized value of the Key whatever the kind of its entries, also where
\* only another language defines it, and the text itself only when no
\* language defines the Key.
C15_ResolveKeyOfEveryKind ==
    \A key \in Keys :
        (/\ ret.op = "Resolve"
         /\ ret.text = KeyText(key)
         /\ GetHandle(world, key).ok)
        => IF KindsAt(world, GetHandle(world, key).v) = {}
           THEN ~ret.ok /\ ret.str = ret.text
           ELSE /\ ret.ok
                /\ ret.str \in LocalizedValues(world, ret.tag,
                                               GetHandle(world, key).v)

\* C16: Resolve of a text that does not start with "@" and is no
\* registered Key returns the text as it is and changes nothing in the
\* registry: no handle is allocated, no Key registered, no container
\* becomes dirty.
C16_UnknownTextUnchanged ==
    [][(/\ ret'.op = "Resolve"
        /\ ~HasPrefix(ret'.text, <<"@">>)
        /\ ~GetHandle(world, TextKey(ret'.text)).ok)
       => ret'.str = ret'.text /\ world' = world]_vars

\* Resolve has returned a text that is no Key of a registry that holds
\* Keys, and a Key that is not registered
C16_Witness ==
    /\ ret.op = "Resolve"
    /\ ret.text \in {<<"a", "b">>, KeyText("k2")}
    /\ ret.str = ret.text
    /\ GetHandle(world, "k1").ok
    /\ ~GetHandle(world, TextKey(ret.text)).ok
    /\ world.bundles[ret.tag].dirty

\* ------------------------------------------------- the parser on its own

\* the longest text the parser is given, the texts of its tests apart
MaxLen == 5

\* the characters those texts are made of: a letter, a digit, a space and
\* the three characters the parser gives a meaning to
ParseChars == {"a", "1", " ", "'", "{", "}"}

\* the text of TestParseICUApostrophes
ICUExample ==
    <<"H", "e", "l", "l", "o", " ", "'", "{", "'", "n", "o", "t", "A", "V",
      "a", "r", "'", "}", "'", " ", "a", "n", "d", " ", "{", "n", "a", "m",
      "e", "}", ",", " ", "'", "'", "q", "u", "o", "t", "e", "'", "'", " ",
      "t", "e", "s", "t">>

\* the text of TestParseInvalidVariable
InvalidExample ==
    <<"H", "e", "l", "l", "o", " ", "{", "1", "2", "3", "b", "a", "d", "}">>

\* the text of TestParseUnclosedVariable
UnclosedExample ==
    <<"H", "e", "l", "l", "o", " ", "{", "n", "a", "m", "e">>

\* the texts the parser is given
ParseInputs ==
    UNION {[1..n -> ParseChars] : n \in 0..MaxLen}
    \cup {ICUExample, InvalidExample, UnclosedExample}

\* a text is at hand, nothing is called yet
InitParse ==
    /\ world = NewWorld
    /\ shadow = NewWorld
    /\ ret \in {[NoCall EXCEPT !.op = "text", !.text = text] :
                    text \in ParseInputs}
    /\ issued = NoMap
    /\ returned = {}
    /\ calls = 0
    /\ NoThreads

\* the return of Parse: p is what it returned
ParseReturns(p) ==
    /\ Called
    /\ ret' = [ret EXCEPT !.op = "Parse", !.tokens = p.tokens, !.err = p.err]
    /\ UNCHANGED <<world, shadow, issued, returned>>

\* parser.Parse(text)
ParseCall ==
    /\ ret.op = "text"
    /\ ParseReturns(Parse(ret.text))

\* the return of ParseTemplate: p is what it returned
ParseTemplateReturns(p) ==
    /\ Called
    /\ ret' = [ret EXCEPT !.op = "ParseTemplate", !.tpl = p.tpl,
                          !.err = p.err]
    /\ UNCHANGED <<world, shadow, issued, returned>>

\* ParseTemplate(text)
ParseTemplateCall ==
    /\ ret.op = "text"
    /\ ParseTemplateReturns(ParseTemplate(ret.text))

\* the attributes Execute is called with: two of the name "a", one of
\* another name, and a quantity, which has no name
Attrs ==
    {StringAttr(<<"a">>, <<"x">>), IntAttr(<<"a">>, 12),
     StringAttr(<<"a", "1">>, <<"{">>), Plural(1)}

\* the attribute lists Execute is called with
AttrLists ==
    {<<>>} \cup {<<a>> : a \in Attrs} \cup {<<a, b>> : a \in Attrs, b \in Attrs}

\* tpl.Execute() on the Template ParseTemplate returned without an error
ExecuteCall ==
    /\ ret.op = "ParseTemplate"
    /\ ret.err = "nil"
    /\ Called
    /\ ret' = [ret EXCEPT !.op = "Execute", !.str = Execute(ret.tpl)]
    /\ UNCHANGED <<world, shadow, issued, returned>>

\* tpl.Execute(args...) with attributes
ExecuteArgsCall(args) ==
    /\ ret.op = "ParseTemplate"
    /\ ret.err = "nil"
    /\ Called
    /\ ret' = [ret EXCEPT !.op = "ExecuteArgs", !.args = args,
                          !.str = ExecuteArgs(ret.tpl, args)]
    /\ UNCHANGED <<world, shadow, issued, returned>>

NextParse ==
    \/ ParseCall
    \/ ParseTemplateCall
    \/ ExecuteCall
    \/ \E args \in AttrLists \ {<<>>} : ExecuteArgsCall(args)

\* the parser and the template engine applied to a text
SpecParse == InitParse /\ [][NextParse]_vars

\* the tokens TestParseICUApostrophes expects
ICUTokens ==
    <<[Type |-> TextToken,
       Value |->
          <<"H", "e", "l", "l", "o", " ", "{", "n", "o", "t", "A", "V",
            "a", "r", "}", " ", "a", "n", "d", " ">>],
      [Type |-> VarToken, Value |-> <<"n", "a", "m", "e">>],
      [Type |-> TextToken,
       Value |->
          <<",", " ", "'", "q", "u", "o", "t", "e", "'", " ", "t", "e",
            "s", "t">>]>>

\* C17: Parse applies the apostrophe rules, braces inside a quoted span
\* being literal text and a doubled apostrophe one apostrophe: for the text
\* "Hello '{'notAVar'}' and {name}, ''quote'' test" it returns exactly the
\* tokens Text "Hello {notAVar} and ", Var "name", Text ", 'quote' test"
\* and no error.
C17_ICUApostrophes ==
    (ret.op = "Parse" /\ ret.text = ICUExample)
    => ret.tokens = ICUTokens /\ ret.err = "nil"

\* Parse has returned for the text of the example
C17_Witness ==
    /\ ret.op = "Parse"
    /\ ret.text = ICUExample
    /\ Len(ret.tokens) = 3

\* The apostrophe rules read off a text from position i on, q telling
\* whether a quoted span is open: the characters that remain, each with
\* lit telling that it stands for itself (it is inside a quoted span or
\* was written by an apostrophe).  A doubled apostrophe is one apostrophe;
\* a single one closes the open span, opens one before a brace, and is a
\* character like any other elsewhere.
RECURSIVE Unquoted(_, _, _)
Unquoted(text, i, q) ==
    IF i > Len(text) THEN <<>>
    ELSE IF text[i] # "'"
    THEN <<[ch |-> text[i], lit |-> q]>> \o Unquoted(text, i + 1, q)
    ELSE IF i < Len(text) /\ text[i + 1] = "'"
    THEN <<[ch |-> "'", lit |-> TRUE]>> \o Unquoted(text, i + 2, q)
    ELSE IF q THEN Unquoted(text, i + 1, FALSE)
    ELSE IF i < Len(text) /\ text[i + 1] \in {"{", "}"}
    THEN Unquoted(text, i + 1, TRUE)
    ELSE <<[ch |-> "'", lit |-> TRUE]>> \o Unquoted(text, i + 1, FALSE)

\* whether the text ends inside a quoted span
RECURSIVE EndsQuoted(_, _, _)
EndsQuoted(text, i, q) ==
    IF i > Len(text) THEN q
    ELSE IF text[i] # "'" THEN EndsQuoted(text, i + 1, q)
    ELSE IF i < Len(text) /\ text[i + 1] = "'" THEN EndsQuoted(text, i + 2, q)
    ELSE IF q THEN EndsQuoted(text, i + 1, FALSE)
    ELSE EndsQuoted(text, i + 1, i < Len(text) /\ text[i + 1] \in {"{", "}"})

\* the apostrophe-unescaped form of a text
Unescaped(text) ==
    [k \in 1..Len(Unquoted(text, 1, FALSE)) |-> Unquoted(text, 1, FALSE)[k].ch]

\* the characters of items i..j
Enclosed(items, i, j) == [k \in 1..((j - i) + 1) |-> items[(i + k) - 1].ch]

\* the variables of a text whose apostrophes are read off already: from
\* item i on, open being the position of the unquoted "{" that is open (0
\* for none), the texts the pairs of an unquoted "{" and the next unquoted
\* "}" enclose, and whether a "{" is left open at the end
RECURSIVE Pairs(_, _, _)
Pairs(items, i, open) ==
    IF i > Len(items) THEN [names |-> <<>>, open |-> open # 0]
    ELSE IF open = 0
    THEN Pairs(items, i + 1,
               IF items[i].ch = "{" /\ ~items[i].lit THEN i ELSE 0)
    ELSE IF items[i].ch = "}" /\ ~items[i].lit
    THEN [names |-> <<Enclosed(items, open + 1, i - 1)>>
                    \o Pairs(items, i + 1, 0).names,
          open |-> Pairs(items, i + 1, 0).open]
    ELSE Pairs(items, i + 1, open)

\* the variables of a text
VariablesOf(text) == Pairs(Unquoted(text, 1, FALSE), 1, 0)

\* a text without the spaces around it
Trimmed(s) ==
    IF \A i \in 1..Len(s) : s[i] \in Spaces THEN <<>>
    ELSE SubSeq(s,
                CHOOSE i \in 1..Len(s) :
                    s[i] \notin Spaces /\ \A j \in 1..(i - 1) : s[j] \in Spaces,
                CHOOSE i \in 1..Len(s) :
                    s[i] \notin Spaces /\ \A j \in (i + 1)..Len(s) : s[j] \in Spaces)

\* the trimmed names of the variables ps
TrimmedNames(ps) == [k \in 1..Len(ps.names) |-> Trimmed(ps.names[k])]

\* every name of names is a variable name
AllNamesValid(names) == \A k \in 1..Len(names) : varNameRe(names[k])

\* the values of the Var tokens among tokens, in their order
VarValues(tokens) ==
    [k \in 1..Len(SelectSeq(tokens, LAMBDA t : t.Type = VarToken)) |->
        SelectSeq(tokens, LAMBDA t : t.Type = VarToken)[k].Value]

\* what C18 says of the return r of Parse for a text with the trimmed
\* variable names names, open telling that a variable is left open
InvalidNameFails(r, names, open) ==
    /\ ~AllNamesValid(names)
       => r.err = "invalid variable name" /\ r.tokens = <<>>
    /\ (AllNamesValid(names) /\ ~open)
       => r.err = "nil" /\ VarValues(r.tokens) = names

\* C18: for every text, Parse fails, returning an error and no tokens,
\* when an unquoted "{" and the next unquoted "}" enclose a text whose
\* trimmed form is no variable name (as in "Hello {123bad}", "{}" and
\* "{a b}"), and where every such pair encloses a name and no variable is
\* left open it succeeds with the Var tokens of the trimmed names.
C18_InvalidVariableName ==
    ret.op = "Parse"
    => InvalidNameFails(ret, TrimmedNames(VariablesOf(ret.text)),
                        VariablesOf(ret.text).open)

\* Parse has failed on the text of TestParseInvalidVariable
C18_Witness ==
    /\ ret.op = "Parse"
    /\ ret.text = InvalidExample
    /\ ret.err = "invalid variable name"

\* what C19 says of the return r of Parse: names are the trimmed variable
\* names of the text, open tells that a variable is left open, quoted that
\* the text ends inside a quoted span
UnclosedFails(r, names, open, quoted) ==
    /\ r.err = "unclosed variable" <=> (open /\ AllNamesValid(names))
    /\ (quoted /\ ~open /\ AllNamesValid(names)) => r.err = "nil"

\* C19: for every text, Parse fails with the unclosed-variable error
\* exactly when it reaches the end of the text while a variable opened by
\* an unquoted "{" is not closed by an unquoted "}"; a text that ends
\* inside a quoted span but outside a variable is no error.
C19_UnclosedVariable ==
    ret.op = "Parse"
    => UnclosedFails(ret, TrimmedNames(VariablesOf(ret.text)),
                     VariablesOf(ret.text).open,
                     EndsQuoted(ret.text, 1, FALSE))

\* Parse has failed on the text of TestParseUnclosedVariable
C19_Witness ==
    /\ ret.op = "Parse"
    /\ ret.text = UnclosedExample
    /\ ret.err = "unclosed variable"

\* C20: for every text Parse accepts and finds no variable in, Execute
\* without attributes on the Template ParseTemplate made of it returns
\* the apostrophe-unescaped text: doubled apostrophes are one, those that
\* delimit a quoted span are gone, every other character is kept in order.
C20_ExecuteUnescapes ==
    (ret.op = "Execute" /\ VarValues(ret.tpl.parts) = <<>>)
    => ret.str = Unescaped(ret.text)

\* Execute has returned for a text with a doubled apostrophe and a quoted
\* brace
C20_Witness ==
    /\ ret.op = "Execute"
    /\ ret.text = <<"a", "'", "'", "'", "{">>
    /\ ret.str = <<"a", "'", "{">>

\* the string a part stands for: the text of a Text token; for a Var token
\* the string form of the first attribute of its name, its name when no
\* attribute has it
Stands(p, args) ==
    IF p.Type = TextToken THEN p.Value
    ELSE IF \A i \in 1..Len(args) : args[i].name # p.Value THEN p.Value
    ELSE AttrString(args[CHOOSE i \in 1..Len(args) :
                            /\ args[i].name = p.Value
                            /\ \A j \in 1..(i - 1) : args[j].name # p.Value])

\* the strings the parts from position i on stand for, one after the other
RECURSIVE Interpolated(_, _, _)
Interpolated(parts, args, i) ==
    IF i > Len(parts) THEN <<>>
    ELSE Stands(parts[i], args) \o Interpolated(parts, args, i + 1)

\* C21: Execute(attrs) always returns the string made of its parts, a Text
\* part as it is, a Var part as the string form of the first attribute of
\* its name, or as its own name when no attribute has it; also on the fast
\* paths (no parts, or one part and no attributes).
C21_ExecuteInterpolates ==
    ret.op \in {"Execute", "ExecuteArgs"}
    => ret.str = Interpolated(ret.tpl.parts, ret.args, 1)

\* Execute has replaced a variable by the first of two attributes of its
\* name and kept a text of that name
C21_Witness ==
    /\ ret.op = "ExecuteArgs"
    /\ ret.text = <<"a", "{", "a", "}">>
    /\ ret.args = <<IntAttr(<<"a">>, 12), StringAttr(<<"a">>, <<"x">>)>>
    /\ ret.str = <<"a", "1", "2">>

\* ------------------------------------- lookups that return strings

\* the whole quantities QuantityString is called with
Quantities == {0, 1, 2}

\* the return of QuantityString: m is what the lookup found
QuantityStringReturns(b, id, quantity, m) ==
    /\ Called
    /\ world' = m.w
    /\ ret' = [NoCall EXCEPT
                !.op = "QuantityString", !.tag = b, !.hnd = id,
                !.quantity = quantity, !.ok = m.ok, !.mutex = m.mutex,
                !.str = IF m.ok
                        THEN quantityExecute(m.data.quantityTemplates,
                                             BundleTag(b), quantity, <<>>)
                        ELSE <<>>]
    /\ UNCHANGED <<shadow, issued, returned>>

\* b.QuantityString(id, quantity) on a Bundle b of the registry
QuantityStringCall(b, id, quantity) ==
    /\ CanCall
    /\ \E m \in BundleKind(world, MessageQuantities, b, id) :
         QuantityStringReturns(b, id, quantity, m)

\* Bundle.StringLiteral(id) of Bundle b: [str, quantities, ok]
StringLiteral(w, b, id) ==
    IF StringsAt(w, b, id).ok /\ StringsAt(w, b, id).v.kind = MessageString
    THEN [str |-> StringsAt(w, b, id).v.constStr, quantities |-> NoQuantities,
          ok |-> TRUE]
    ELSE [str |-> <<>>, quantities |-> NoQuantities, ok |-> FALSE]

\* Bundle.VarStringLiteral(id) of Bundle b
VarStringLiteral(w, b, id) ==
    IF StringsAt(w, b, id).ok /\ StringsAt(w, b, id).v.kind = MessageVarString
    THEN [str |-> StringsAt(w, b, id).v.template.raw,
          quantities |-> NoQuantities, ok |-> TRUE]
    ELSE [str |-> <<>>, quantities |-> NoQuantities, ok |-> FALSE]

\* Bundle.QuantityStringLiterals(id) of Bundle b; the kind it asks for is
\* MessageVarString
QuantityStringLiterals(w, b, id) ==
    IF StringsAt(w, b, id).ok /\ StringsAt(w, b, id).v.kind = MessageVarString
    THEN [str |-> <<>>,
          quantities |-> StringsAt(w, b, id).v.quantityTemplates.raw,
          ok |-> TRUE]
    ELSE [str |-> <<>>, quantities |-> NoQuantities, ok |-> FALSE]

\* the name of the literal lookup of a kind, and what it returns
LiteralOp(kind) ==
    CASE kind = MessageString -> "StringLiteral"
      [] kind = MessageVarString -> "VarStringLiteral"
      [] kind = MessageQuantities -> "QuantityStringLiterals"

LiteralOf(w, kind, b, id) ==
    CASE kind = MessageString -> StringLiteral(w, b, id)
      [] kind = MessageVarString -> VarStringLiteral(w, b, id)
      [] kind = MessageQuantities -> QuantityStringLiterals(w, b, id)

\* the return of a literal lookup: l is what it returned
LiteralReturns(kind, b, id, l) ==
    /\ Called
    /\ ret' = [NoCall EXCEPT !.op = LiteralOp(kind), !.tag = b, !.hnd = id,
                             !.ok = l.ok, !.str = l.str,
                             !.quantities = l.quantities]
    /\ UNCHANGED <<world, shadow, issued, returned>>

\* b.StringLiteral / VarStringLiteral / QuantityStringLiterals(id) on a
\* Bundle b of the registry
LiteralCall(kind, b, id) == LiteralReturns(kind, b, id, LiteralOf(world, kind, b, id))

NextStrings ==
    \/ AddCalls({<<>>})
    \/ \E tag \in LangTags : AddLanguageCall(tag)
    \/ \E b \in Children(world), msg \in Messages : UpdateCall(b, msg)
    \/ \E b \in Children(world), id \in Handles(world),
          quantity \in Quantities : QuantityStringCall(b, id, quantity)
    \/ \E kind \in LookupKinds, b \in Children(world), id \in Handles(world) :
            LiteralCall(kind, b, id)

\* a registry whose Bundles are asked for strings and literals
SpecStrings == Init /\ [][NextStrings]_vars

\* the entries QuantityString(hnd) of Bundle b can find
QuantityEntries(w, b, hnd) ==
    {m.data : m \in {n \in BundleKind(w, MessageQuantities, b, hnd) : n.ok}}

\* the source string the Quantities struct raw has for the form of the
\* quantity in the language of tag
SelectedSource(raw, tag, quantity) ==
    raw[PluralForms[PluralForm(tag, quantity)]]

\* C22: when the quantity entry has no template for the plural category of
\* (language, quantity), QuantityString returns the empty string and
\* found = true: it neither takes the "other" template nor reports absence.
C22_NoFallbackToOther ==
    (/\ ret.op = "QuantityString"
     /\ QuantityEntries(world, ret.tag, ret.hnd) # {}
     /\ \A data \in QuantityEntries(world, ret.tag, ret.hnd) :
            SelectedSource(data.quantityTemplates.raw, BundleTag(ret.tag),
                           ret.quantity) = <<>>)
    => ret.ok /\ ret.str = <<>>

\* QuantityString has returned for the quantity 1 and an entry that has a
\* template for Other only
C22_Witness ==
    /\ ret.op = "QuantityString"
    /\ ret.quantity = 1
    /\ ret.ok
    /\ ret.str = <<>>
    /\ QuantityEntries(world, ret.tag, ret.hnd)
        = {QuantityData(parseQuantityTemplates(NewQuantities)).data}

\* C25, as stated: QuantityStringLiterals(id) returns the raw Quantities
\* that were registered and true exactly when this Bundle itself holds a
\* quantity entry at id, and the empty Quantities and false otherwise; it
\* does not fall through to other Bundles.
C25_QuantityLiterals ==
    ret.op = "QuantityStringLiterals"
    => IF /\ StringsAt(world, ret.tag, ret.hnd).ok
          /\ StringsAt(world, ret.tag, ret.hnd).v.kind = MessageQuantities
       THEN /\ ret.ok
            /\ ret.quantities
                = StringsAt(world, ret.tag, ret.hnd).v.quantityTemplates.raw
       ELSE ~ret.ok /\ ret.quantities = NoQuantities

\* ------------------------------------------------- matching a tag

\* r.MatchTag(tag)
MatchTagCall(tag) ==
    /\ Called
    /\ world' = MatchTag(world, tag).w
    /\ shadow' = MatchTag(shadow, tag).w
    /\ ret' = [NoCall EXCEPT !.op = "MatchTag", !.tag = tag,
                             !.matched = MatchTag(world, tag).tag,
                             !.ok = MatchTag(world, tag).ok,
                             !.mutex = MatchTag(world, tag).mutex]
    /\ UNCHANGED <<issued, returned>>

NextMatch ==
    \/ \E key \in Keys, vals \in ValueSeqs(MessageString) :
            AddCall(MessageString, key, vals, <<>>)
    \/ \E tag \in LangTags : AddLanguageCall(tag)
    \/ \E tags \in PriorityLists : SetPrioritiesCall(tags)
    \/ FlushCall
    \/ \E tag \in AllTags : MatchTagCall(tag)

\* a registry that is asked to match tags
SpecMatch == Init /\ [][NextMatch]_vars

\* what C23 says of a MatchTag(tag) that returned (matched, ok): m is the
\* answer of the matcher, priorities the priority list
MatchedByIndex(tag, matched, ok, m, priorities) ==
    IF m.confi = "No" THEN ~ok /\ matched = tag
    ELSE /\ ok
         /\ m.idx < Len(priorities)
         /\ matched = priorities[m.idx + 1]

\* C23: MatchTag(tag) returns the element of the priority list at the
\* index the matcher chose, and true, when the matcher reports an exact
\* or a partial match; it returns the tag it was given, and false, when
\* the matcher reports no match, also on a registry without a language.
C23_MatchTagByIndex ==
    ret.op = "MatchTag"
    => MatchedByIndex(ret.tag, ret.matched, ret.ok,
                      Match(world.res.matcher.tags, ret.tag),
                      SliceAll(world.res.priorities))

\* MatchTag has returned a partial match from a priority list it had to
\* repair
C23_Witness ==
    /\ ret.op = "MatchTag"
    /\ ret.tag = "de-AT"
    /\ ret.matched = "de"
    /\ ret.ok
    /\ ret.mutex
    /\ SliceAll(world.res.priorities) = <<"en", "de">>

\* ------------------------------------------- falling through the Bundles

\* the registries the runs with three languages start on:
\* r.AddString("k1", values) for English, or for German and English, then
\* r.AddLanguage(French)
FallbackStarts ==
    {AddLanguage(Add(NewWorld, MessageString, "k1", vals, <<>>).w, "fr").w :
        vals \in {<<<<"en", GoodText>>>>,
                  <<<<"de", GoodText>>, <<"en", GoodText>>>>}}

InitFallback ==
    /\ world \in FallbackStarts
    /\ shadow = world
    /\ ret = NoCall
    /\ issued = ("k1" :> 1)
    /\ returned = {1}
    /\ calls = 0
    /\ NoThreads

\* the priority lists of these runs
FallbackPriorities ==
    {<<>>, <<"en">>, <<"de", "en">>, <<"en", "de">>, <<"fr", "en", "de">>}

\* the return of matchStrData: m is what it returned
MatchStrDataReturns(tag, hnd, m) ==
    /\ Called
    /\ world' = m.w
    /\ shadow' = MatchBundle(shadow, tag).w
    /\ ret' = [NoCall EXCEPT !.op = "matchStrData", !.tag = tag, !.hnd = hnd,
                             !.ok = m.ok, !.mutex = m.mutex, !.from = m.from]
    /\ UNCHANGED <<issued, returned>>

\* r.matchStrData(tag, hnd), the lookup MatchString, MatchVarString and
\* MatchQuantityString start with
MatchStrDataCall(tag, hnd) ==
    /\ CanCall
    /\ \E m \in matchStrData(world, tag, hnd) : MatchStrDataReturns(tag, hnd, m)

NextFallback ==
    \/ \E tags \in FallbackPriorities : SetPrioritiesCall(tags)
    \/ \E tag \in LangTags : AddLanguageCall(tag)
    \/ FlushCall
    \/ \E tag \in AllTags, hnd \in Handles(world) : MatchStrDataCall(tag, hnd)

\* a registry of three languages with changing priorities
SpecFallback == InitFallback /\ [][NextFallback]_vars

\* the positions of the priority list whose Bundle defines hnd
DefiningPositions(w, hnd) ==
    {i \in 1..SliceLen(w.res.priorities) :
        /\ GetChild(w, SliceAll(w.res.priorities)[i]).ok
        /\ Defines(w, GetChild(w, SliceAll(w.res.priorities)[i]).v, hnd)}

\* the Bundles outside the priority list that define hnd
DefiningOutside(w, hnd) ==
    {b \in Children(w) :
        /\ Defines(w, b, hnd)
        /\ ~Contains(SliceAll(w.res.priorities), BundleTag(b))}

\* what C24 says of a lookup that took its entry from Bundle from, ps being
\* the defining positions of the priority list
InPriorityOrder(w, hnd, from, ps) ==
    IF ps # {}
    THEN from = GetChild(w, SliceAll(w.res.priorities)[
                    CHOOSE i \in ps : \A j \in ps : i <= j]).v
    ELSE IF DefiningOutside(w, hnd) # {} THEN from \in DefiningOutside(w, hnd)
    ELSE from = Und

\* C24: when the Bundle that matches a tag best does not define a handle,
\* the lookup returns the entry of the first Bundle in the order of the
\* priority list that defines it, and of a Bundle outside the priority
\* list only when no Bundle of the list defines it.
C24_FallbackInPriorityOrder ==
    (/\ ret.op = "matchStrData"
     /\ MatchBundle(world, ret.tag).ok
     /\ ~Defines(world, MatchBundle(world, ret.tag).b, ret.hnd))
    => InPriorityOrder(world, ret.hnd, ret.from,
                       DefiningPositions(world, ret.hnd))

\* a lookup for French, which has no entry, has taken the entry of English,
\* the first of the priorities English and German, which both define it
C24_Witness ==
    /\ ret.op = "matchStrData"
    /\ ret.tag = "fr"
    /\ ret.from = "en"
    /\ SliceAll(world.res.priorities) = <<"en", "de">>
    /\ Defines(world, "de", ret.hnd)
    /\ ~Defines(world, "fr", ret.hnd)

\* ------------------------------------------ the Kind of a handle's entries

\* the threads that call at the same time
Goroutines == {"t1", "t2", "t3"}

\* the registry these threads start on: "k1" is a constant string of "de",
\* and "en" has a Bundle without entries
KindsStart == AddLanguage(StartWorld, "en").w

\* the add calls of a thread: AddVarString and AddQuantityString of the new
\* Key "k2" for both languages, one of them with a template that does not
\* parse, and AddVarString of the Key the registry has
AddThreadCalls ==
    {[NoThreadCall EXCEPT !.op = "Add", !.kind = MessageVarString,
                          !.key = "k2", !.vals = vals] :
        vals \in {<<<<"de", GoodText>>, <<"en", GoodText>>>>,
                  <<<<"en", GoodText>>, <<"de", BadText>>>>}}
    \cup {[NoThreadCall EXCEPT !.op = "Add", !.kind = MessageQuantities,
                               !.key = "k2",
                               !.vals = <<<<"de", GoodQuantities>>,
                                          <<"en", GoodQuantities>>>>],
          [NoThreadCall EXCEPT !.op = "Add", !.kind = MessageVarString,
                               !.key = "k1",
                               !.vals = <<<<"en", GoodText>>>>]}

\* a Message of Update with the text Update writes
TextMessage(key, kind) ==
    [NoMessage EXCEPT !.Key = key, !.Kind = kind, !.Value = NewText]

\* the Update calls of a thread, on the Bundles of "de" and "en"
UpdateThreadCalls ==
    {[NoThreadCall EXCEPT !.op = "Update", !.tag = tag,
                          !.msg = TextMessage("k2", kind)] :
        tag \in {"de", "en"}, kind \in {MessageUndefined, MessageVarString}}
    \cup {[NoThreadCall EXCEPT !.op = "Update", !.tag = "en",
                               !.msg = TextMessage("k2", MessageString)],
          [NoThreadCall EXCEPT !.op = "Update", !.tag = "en",
                               !.msg = TextMessage("k1", MessageUndefined)]}

InitKinds ==
    /\ world = KindsStart
    /\ shadow = KindsStart
    /\ ret = NoCall
    /\ issued = "k1" :> 1
    /\ returned = {1}
    /\ calls = 0
    /\ pc = [t \in Goroutines |-> "start"]
    /\ arg \in {a \in [Goroutines -> AddThreadCalls \cup UpdateThreadCalls] :
                    /\ a["t1"] \in AddThreadCalls
                    /\ a["t2"] \in UpdateThreadCalls}
    /\ local = [t \in Goroutines |-> NoLocal]
    /\ mutex = "free"

\* an add call: r.mutex.Lock()
AddLock(t) ==
    /\ mutex = "free"
    /\ Goes(t, "Add", "start", "exist")
    /\ mutex' = t
    /\ UNCHANGED <<world, local>>

\* an add call that registers the Key whether the registry has it or not
AddExistSkipped(t) ==
    /\ Goes(t, "Add", "exist", "register")
    /\ UNCHANGED <<world, local, mutex>>

\* an add call: if v, ok := r.reverseHandles.Get(key); ok { return v,
\* os.ErrExist }
AddExist(t) ==
    /\ Goes(t, "Add", "exist",
            IF GetHandle(world, arg[t].key).ok THEN "unlock" ELSE "register")
    /\ local' = [local EXCEPT
                    ![t].hnd = GetHandle(world, arg[t].key).v,
                    ![t].err = IF GetHandle(world, arg[t].key).ok
                               THEN "ErrExist" ELSE "nil"]
    /\ UNCHANGED <<world, mutex>>

\* an add call: hnd := r.nextHnd(); r.handles.Put(hnd, key);
\* r.reverseHandles.Put(key, hnd)
AddRegister(t) ==
    /\ Goes(t, "Add", "register",
            IF arg[t].vals = <<>> THEN "unlock" ELSE "values")
    /\ world' = RegisterKey(world, arg[t].key)
    /\ local' = [local EXCEPT ![t].hnd = world.res.lastHandle + 1,
                              ![t].i = 1]
    /\ UNCHANGED mutex

\* the end of one round of the loop over the values: w1 has the Bundle of
\* the round's tag, d is the entry built from the round's value
AddStores(t, w1, d) ==
    /\ Goes(t, "Add", "values",
            IF d.err # "nil" \/ local[t].i = Len(arg[t].vals)
            THEN "unlock" ELSE "values")
    /\ world' = IF d.err # "nil" THEN w1
                ELSE StringsSet(w1,
                        GetChild(w1, arg[t].vals[local[t].i][1]).v,
                        local[t].hnd, d.data)
    /\ local' = [local EXCEPT ![t].err = d.err, ![t].i = @ + 1]
    /\ UNCHANGED mutex

\* an add call: one round of the loop over the values
AddValue(t) ==
    AddStores(t, EnsureBundle(world, arg[t].vals[local[t].i][1]),
              MakeStrData(arg[t].kind, arg[t].vals[local[t].i][2]))

\* an add call: the deferred r.mutex.Unlock()
AddUnlock(t) ==
    /\ mutex = t
    /\ Goes(t, "Add", "unlock", "done")
    /\ mutex' = "free"
    /\ UNCHANGED <<world, local>>

NextKinds ==
    \E t \in Goroutines :
        \/ AddLock(t)
        \/ AddExist(t)
        \/ AddRegister(t)
        \/ AddValue(t)
        \/ AddUnlock(t)
        \/ UpdateGet(t)
        \/ UpdateType(t)
        \/ UpdateAt(t)
        \/ UpdateCheck(t)
        \/ UpdateRead(t)
        \/ UpdateSet(t)

\* three threads that each make one add or Update call on the same
\* registry; a thread may run before, between or after the steps of the
\* others
SpecKinds == InitKinds /\ [][NextKinds]_vars

\* the threads whose add call has created handle hnd
Creators(hnd) ==
    {t \in Goroutines :
        /\ arg[t].op = "Add"
        /\ pc[t] \in {"values", "unlock", "done"}
        /\ local[t].err # "ErrExist"
        /\ local[t].hnd = hnd}

\* the Kind of the add call that created handle hnd: the first handle is
\* of the AddString call the registry starts with
CreatingKinds(hnd) ==
    IF hnd = 1 THEN {MessageString}
    ELSE {arg[t].kind : t \in Creators(hnd)}

\* C26: in every reachable state and for every handle, the Bundles that
\* hold a defined entry at the handle all hold an entry of one Kind, the
\* Kind of the add call that created the handle, whatever the order in
\* which add and Update calls run and interleave.
C26_OneKindPerHandle ==
    \A hnd \in Handles(world) :
        /\ Cardinality(CreatingKinds(hnd)) = 1
        /\ KindsAt(world, hnd) \subseteq CreatingKinds(hnd)

\* C26 witness: while an add call is between its two values, an Update of
\* the same Key has returned without error, and two Bundles hold a defined
\* entry at the handle
C26_Witness ==
    \E t \in Goroutines, u \in Goroutines :
        /\ arg[t].op = "Add"
        /\ pc[t] = "values"
        /\ local[t].i = 2
        /\ arg[u].op = "Update"
        /\ pc[u] = "done"
        /\ local[u].err = "nil"
        /\ local[u].hnd = local[t].hnd
        /\ Cardinality(Defining(world, local[t].hnd)) = 2

\* ------------------------------------- MatchTag beside the registrations

\* the registration call of the first thread: SetPriorities or AddLanguage
StaleRegistrations ==
    {[NoThreadCall EXCEPT !.op = "SetPriorities", !.tags = tags] :
        tags \in {<<"en">>, <<"en", "de">>}}
    \cup {[NoThreadCall EXCEPT !.op = "AddLanguage", !.tag = tag] :
        tag \in LangTags}

\* the MatchTag calls of the other threads
MatchTagThreadCalls ==
    {[NoThreadCall EXCEPT !.op = "MatchTag", !.tag = tag] :
        tag \in {"de", "en"}}

InitStale ==
    /\ world = StartWorld
    /\ shadow = StartWorld
    /\ ret = NoCall
    /\ issued = "k1" :> 1
    /\ returned = {1}
    /\ calls = 0
    /\ pc = [t \in Goroutines |-> "start"]
    /\ arg \in {a \in [Goroutines ->
                        StaleRegistrations \cup MatchTagThreadCalls] :
                    /\ a["t1"] \in StaleRegistrations
                    /\ a["t2"] \in MatchTagThreadCalls
                    /\ a["t3"] \in MatchTagThreadCalls}
    /\ local = [t \in Goroutines |-> NoLocal]
    /\ mutex = "free"

\* MatchTag: matcher := r.matcher.Load(); if matcher == nil { ... }
MatchTagLoad(t) ==
    /\ Goes(t, "MatchTag", "start",
            IF world.res.matcher.set THEN "match" ELSE "lock")
    /\ local' = [local EXCEPT ![t].matcher = world.res.matcher]
    /\ UNCHANGED <<world, mutex>>

\* MatchTag: r.mutex.Lock()
MatchTagLock(t) ==
    /\ mutex = "free"
    /\ Goes(t, "MatchTag", "lock", "tags")
    /\ mutex' = t
    /\ UNCHANGED <<world, local>>

\* MatchTag: the loop over r.priorities.All() that fills tags
MatchTagTags(t) ==
    /\ Goes(t, "MatchTag", "tags", "repair")
    /\ local' = [local EXCEPT ![t].tags = SliceAll(world.res.priorities)]
    /\ UNCHANGED <<world, mutex>>

\* MatchTag: the loop over r.children.All(), the sort, and the append of
\* the Bundle tags missing from tags
MatchTagRepair(t) ==
    /\ Goes(t, "MatchTag", "repair", "replace")
    /\ local' = [local EXCEPT
                    ![t].tags = @ \o SortTags({c \in ChildTags(world) :
                                                ~Contains(@, c)})]
    /\ UNCHANGED <<world, mutex>>

\* MatchTag: r.priorities.Replace(tags)
MatchTagReplace(t) ==
    /\ Goes(t, "MatchTag", "replace", "flush")
    /\ world' = [world EXCEPT
                    !.res.priorities = SliceReplace(@, local[t].tags)]
    /\ UNCHANGED <<local, mutex>>

\* MatchTag: r.priorities.Flush()
MatchTagFlush(t) ==
    /\ Goes(t, "MatchTag", "flush", "store")
    /\ world' = [world EXCEPT !.res.priorities = SliceFlush(@)]
    /\ UNCHANGED <<local, mutex>>

\* MatchTag: tmp := language.NewMatcher(tags); r.matcher.Store(&tmp);
\* matcher = &tmp
MatchTagStore(t) ==
    /\ Goes(t, "MatchTag", "store", "match")
    /\ world' = [world EXCEPT !.res.matcher = NewMatcher(local[t].tags)]
    /\ local' = [local EXCEPT ![t].matcher = NewMatcher(local[t].tags)]
    /\ UNCHANGED mutex

\* the returns of MatchTag: a is what MatchReturn returned
MatchTagReturns(t, a) ==
    /\ Goes(t, "MatchTag", "match", IF mutex = t THEN "unlock" ELSE "done")
    /\ local' = [local EXCEPT ![t].matched = a.tag, ![t].ok = a.ok]
    /\ UNCHANGED <<world, mutex>>

\* MatchTag: (*matcher).Match(tag) and the returns, which read
\* r.priorities.At(idx)
MatchTagMatch(t) ==
    MatchTagReturns(t, MatchAnswer([w |-> world, mutex |-> mutex = t],
                                   arg[t].tag,
                                   Match(local[t].matcher.tags, arg[t].tag)))

\* MatchTag: the deferred r.mutex.Unlock()
MatchTagUnlock(t) ==
    /\ mutex = t
    /\ Goes(t, "MatchTag", "unlock", "done")
    /\ mutex' = "free"
    /\ UNCHANGED <<world, local>>

NextStale ==
    \E t \in Goroutines :
        \/ SetPrioritiesClear(t)
        \/ SetPrioritiesAppend(t)
        \/ SetPrioritiesStore(t)
        \/ AddLanguageLock(t)
        \/ AddLanguageGet(t)
        \/ AddLanguageAppend(t)
        \/ AddLanguageClear(t)
        \/ AddLanguagePut(t)
        \/ AddLanguageUnlock(t)
        \/ MatchTagLoad(t)
        \/ MatchTagLock(t)
        \/ MatchTagTags(t)
        \/ MatchTagRepair(t)
        \/ MatchTagReplace(t)
        \/ MatchTagFlush(t)
        \/ MatchTagStore(t)
        \/ MatchTagMatch(t)
        \/ MatchTagUnlock(t)

\* one thread that calls SetPriorities or AddLanguage beside two threads
\* that call MatchTag
SpecStale == InitStale /\ [][NextStale]_vars

\* C27, as stated: once the SetPriorities or AddLanguage call has
\* returned, a cached matcher is one built over the priority list of that
\* moment plus the missing Bundle tags, and the priority list starts with
\* the tags given to SetPriorities, with MatchTag calls running beside it.
C27_MatcherNeverStale ==
    \A t \in Goroutines :
        (arg[t].op \in {"SetPriorities", "AddLanguage"} /\ pc[t] = "done") =>
            /\ world.res.matcher.set =>
                    world.res.matcher.tags = RepairedPriorities(world)
            /\ arg[t].op = "SetPriorities" =>
                    HasPrefix(SliceAll(world.res.priorities), arg[t].tags)

\* ------------------------- the double-buffered containers, step by step

\* bufferedSlice and bufferedMap with their arrays and maps as objects of
\* a heap: mut and read are the objects mutSlice / mutMap and readSlice /
\* readMap point to (0 is nil), lock is the writer that holds the RWMutex.
\* writes counts the writes applied to the backing store and done the
\* writes that have returned; a heap object records in asof the count its
\* content is of and in by the operation that made it.
NewBuffer ==
    [mut |-> 0, read |-> 0, dirty |-> FALSE, lock |-> "free",
     writes |-> 0, done |-> 0]

\* the container s under test, the container c that Clone / CopyInto
\* makes from it (made tells whether the call has returned), and the heap
BufferWorld(kind) ==
    [kind |-> kind, s |-> NewBuffer, c |-> NewBuffer, made |-> FALSE,
     heap |-> <<>>]

BufferKinds == {"slice", "map"}

\* the content of a nil slice or map
Empty(kind) == IF kind = "slice" THEN <<>> ELSE NoMap

\* the content of heap object id
Content(w, id) == IF id = 0 THEN Empty(w.kind) ELSE w.heap[id].data

\* the count of writes the content of heap object id is of
Asof(w, id) == IF id = 0 THEN 0 ELSE w.heap[id].asof

\* the reads, the writes and the copy of a container of the kind
ReadOps(kind) == IF kind = "slice" THEN {"At", "Len", "All"}
                 ELSE {"Get", "Len", "All"}

WriteOps(kind) ==
    IF kind = "slice" THEN {"Set", "Append", "Grow", "Clear", "Replace"}
    ELSE {"Put"}

CopyOp(kind) == IF kind = "slice" THEN "Clone" ELSE "CopyInto"

AllReadOps == ReadOps("slice") \cup ReadOps("map")

AllWriteOps == WriteOps("slice") \cup WriteOps("map")

CopyOps == {"Clone", "CopyInto"}

\* the ops that take the write lock first
LockingOps == AllWriteOps \cup CopyOps

\* the containers calls can be made on
Existing(w) == IF w.made THEN {"s", "c"} ELSE {"s"}

\* thread t is at statement at of a call of one of ops and goes on to
\* statement to
Steps(t, ops, at, to) ==
    /\ arg[t].op \in ops
    /\ pc[t] = at
    /\ pc' = [pc EXCEPT ![t] = to]
    /\ UNCHANGED <<shadow, ret, issued, returned, calls, arg, mutex>>

\* no thread is inside Clone / CopyInto
NoCopyRuns == \A t \in Goroutines : arg[t].op \in CopyOps => pc[t] = "done"

\* the position of a thread among the threads
ThreadRank(t) == CASE t = "t1" -> 1 [] t = "t2" -> 2 [] t = "t3" -> 3

\* thread t is the first of the threads that are not inside a call
FirstIdle(t) ==
    /\ pc[t] = "done"
    /\ \A u \in Goroutines :
            pc[u] = "done" => ThreadRank(t) <= ThreadRank(u)

\* a thread that has returned from its call makes the next one: op on
\* container on; a write writes the number of the call
Begins(t, op, on) ==
    /\ CanCall
    /\ FirstIdle(t)
    /\ op \in CopyOps => on = "s" /\ ~world.made /\ NoCopyRuns
    /\ calls' = calls + 1
    /\ arg' = [arg EXCEPT ![t] =
                [NoThreadCall EXCEPT !.op = op, !.on = on, !.idx = 1,
                                     !.key = IF calls = 1 THEN "k2" ELSE "k1",
                                     !.val = calls + 2]]
    /\ local' = [local EXCEPT ![t] =
                    [NoLocal EXCEPT !.from = world[on].done]]
    /\ pc' = [pc EXCEPT ![t] = IF op \in LockingOps THEN "lock" ELSE "start"]
    /\ UNCHANGED <<world, shadow, ret, issued, returned, mutex>>

Begin(t) ==
    \E on \in Existing(world),
       op \in ReadOps(world.kind) \cup WriteOps(world.kind)
                \cup {"Flush", CopyOp(world.kind)} :
        Begins(t, op, on)

\* what a read returns from content data
ReadResult(a, data) ==
    CASE a.op = "At" ->
            IF a.idx < Len(data) THEN [v |-> data[a.idx + 1], ok |-> TRUE]
            ELSE [v |-> 0, ok |-> FALSE]
      [] a.op = "Get" ->
            IF "k1" \in DOMAIN data THEN [v |-> data["k1"], ok |-> TRUE]
            ELSE [v |-> 0, ok |-> FALSE]
      [] a.op = "Len" -> Cardinality(DOMAIN data)
      [] a.op = "All" -> data

\* a read: if !s.dirty.Load() { fast path } and else the slow path
ReadDirty(t) ==
    /\ Steps(t, AllReadOps, "start",
             IF world[arg[t].on].dirty THEN "slow" ELSE "load")
    /\ local' = [local EXCEPT ![t].fast = ~world[arg[t].on].dirty]
    /\ UNCHANGED world

\* a fast path that waits until no writer holds the lock
ReadLoadWaiting(t) ==
    /\ world[arg[t].on].lock = "free"
    /\ Steps(t, AllReadOps, "load", "deref")
    /\ local' = [local EXCEPT ![t].ptr = world[arg[t].on].read]
    /\ UNCHANGED world

\* the fast path: slicePtr := s.readSlice.Load()
ReadLoad(t) ==
    /\ Steps(t, AllReadOps, "load", "deref")
    /\ local' = [local EXCEPT ![t].ptr = world[arg[t].on].read]
    /\ UNCHANGED world

\* the fast path: the nil check and the read of *slicePtr
ReadDeref(t) ==
    /\ Steps(t, AllReadOps, "deref", "done")
    /\ local' = [local EXCEPT
                    ![t].result = ReadResult(arg[t],
                                             Content(world, local[t].ptr)),
                    ![t].saw = Asof(world, local[t].ptr)]
    /\ UNCHANGED world

\* the slow path: RLock, the read of mutSlice, RUnlock; no writer holds
\* the lock meanwhile
ReadSlow(t) ==
    /\ world[arg[t].on].lock = "free"
    /\ Steps(t, AllReadOps, "slow", "done")
    /\ local' = [local EXCEPT
                    ![t].result = ReadResult(arg[t],
                                    Content(world, world[arg[t].on].mut)),
                    ![t].saw = world[arg[t].on].writes]
    /\ UNCHANGED world

\* the statement after s.mutex.Lock() of the op
Locked(op) ==
    CASE op = "Flush" -> "check"
      [] op \in CopyOps -> "clone"
      [] op = "Set" -> "grow"
      [] OTHER -> "mutate"

\* s.mutex.Lock() of a write, of Flush and of Clone / CopyInto (the
\* second lock CopyInto takes is that of a container no one else has)
TakeLock(t) ==
    /\ world[arg[t].on].lock = "free"
    /\ Steps(t, LockingOps \cup {"Flush"}, "lock", Locked(arg[t].op))
    /\ world' = [world EXCEPT ![arg[t].on].lock = t]
    /\ UNCHANGED local

\* the backing store of container on gets content data, in the object it
\* has or in a new one when it is nil; ver is the count of writes now
Stored(w, on, data, ver) ==
    IF w[on].mut = 0
    THEN [w EXCEPT !.heap = Append(@, [data |-> data, asof |-> ver,
                                       by |-> "write"]),
                   ![on].mut = Len(w.heap) + 1,
                   ![on].writes = ver]
    ELSE [w EXCEPT !.heap[w[on].mut].data = data,
                   !.heap[w[on].mut].asof = ver,
                   ![on].writes = ver]

\* the backing store of container on becomes a new object with content
\* data
Renewed(w, on, data) ==
    [w EXCEPT !.heap = Append(@, [data |-> data, asof |-> w[on].writes + 1,
                                  by |-> "write"]),
              ![on].mut = Len(w.heap) + 1,
              ![on].writes = @ + 1]

\* Set: the zero-extension of mutSlice that makes idx fit
WriteGrow(t) ==
    /\ Steps(t, {"Set"}, "grow", "mutate")
    /\ world' = IF arg[t].idx < Len(Content(world, world[arg[t].on].mut))
                THEN world
                ELSE Stored(world, arg[t].on,
                            Grown(Content(world, world[arg[t].on].mut),
                                  arg[t].idx, 0),
                            world[arg[t].on].writes)
    /\ UNCHANGED local

\* a write that installs the backing store it has changed as the snapshot
MutatedThrough(w, on, a, data) ==
    [Stored(w, on, data, w[on].writes + 1) EXCEPT
        ![on].read = Stored(w, on, data, w[on].writes + 1)[on].mut]

\* what the write a makes of container on whose backing store holds data
Mutated(w, on, a, data) ==
    CASE a.op = "Set" ->
            Stored(w, on, [data EXCEPT ![a.idx + 1] = a.val],
                   w[on].writes + 1)
      [] a.op = "Append" ->
            Stored(w, on, data \o <<a.val>>, w[on].writes + 1)
      [] a.op = "Grow" -> Stored(w, on, data, w[on].writes + 1)
      [] a.op = "Clear" ->
            [w EXCEPT ![on].mut = 0, ![on].writes = @ + 1]
      [] a.op = "Replace" -> Renewed(w, on, <<a.val>>)
      [] a.op = "Put" ->
            Stored(w, on, (a.key :> a.val) @@ data, w[on].writes + 1)

\* a write: the change of mutSlice / mutMap
WriteMutate(t) ==
    /\ Steps(t, AllWriteOps, "mutate", "dirty")
    /\ world' = Mutated(world, arg[t].on, arg[t],
                        Content(world, world[arg[t].on].mut))
    /\ UNCHANGED local

\* a write that returns without s.dirty.Store(true)
WriteNoDirty(t) ==
    /\ Steps(t, AllWriteOps, "dirty", "unlock")
    /\ UNCHANGED <<world, local>>

\* a write: s.dirty.Store(true)
WriteDirty(t) ==
    /\ Steps(t, AllWriteOps, "dirty", "unlock")
    /\ world' = [world EXCEPT ![arg[t].on].dirty = TRUE]
    /\ UNCHANGED local

\* Flush: if !s.dirty.Load() { return }
FlushDirty(t) ==
    /\ Steps(t, {"Flush"}, "start",
             IF world[arg[t].on].dirty THEN "lock" ELSE "done")
    /\ UNCHANGED <<world, local>>

\* a Flush that copies under the lock whatever the dirty flag says
FlushCheckAlways(t) ==
    /\ Steps(t, {"Flush"}, "check", "copy")
    /\ UNCHANGED <<world, local>>

\* Flush: the second if !s.dirty.Load() { return }, under the lock
FlushCheck(t) ==
    /\ Steps(t, {"Flush"}, "check",
             IF world[arg[t].on].dirty THEN "copy" ELSE "unlock")
    /\ UNCHANGED <<world, local>>

\* a Flush that takes mutSlice itself for the snapshot
FlushAlias(t) ==
    /\ Steps(t, {"Flush"}, "copy", "publish")
    /\ local' = [local EXCEPT ![t].ptr = world[arg[t].on].mut]
    /\ UNCHANGED world

\* slices.Clone(s.mutSlice) of Flush: a new object with the content of the
\* backing store of container on
Copied(w, on) ==
    [w EXCEPT !.heap = Append(@, [data |-> Content(w, w[on].mut),
                                  asof |-> w[on].writes, by |-> "Flush"])]

\* Flush: tmp := slices.Clone(s.mutSlice)
FlushCopy(t) ==
    /\ Steps(t, {"Flush"}, "copy", "publish")
    /\ world' = Copied(world, arg[t].on)
    /\ local' = [local EXCEPT ![t].ptr = Len(world.heap) + 1]

\* Flush: s.readSlice.Store(&tmp)
FlushPublish(t) ==
    /\ Steps(t, {"Flush"}, "publish", "clean")
    /\ world' = [world EXCEPT ![arg[t].on].read = local[t].ptr]
    /\ UNCHANGED local

\* Flush: s.dirty.Store(false)
FlushClean(t) ==
    /\ Steps(t, {"Flush"}, "clean", "unlock")
    /\ world' = [world EXCEPT ![arg[t].on].dirty = FALSE]
    /\ UNCHANGED local

\* the object Clone / CopyInto copies: mutSlice, or the snapshot when
\* mutSlice is nil
CopySource(w) == IF w.s.mut = 0 THEN w.s.read ELSE w.s.mut

\* Clone: the copy becomes the snapshot of the new container;
\* CopyInto: the copy becomes dst.mutMap, and nothing else of dst changes
CopyMade(w) ==
    [w EXCEPT !.heap = Append(@, [data |-> Content(w, CopySource(w)),
                                  asof |-> 0, by |-> CopyOp(w.kind)]),
              !.c = IF w.kind = "slice"
                    THEN [NewBuffer EXCEPT !.read = Len(w.heap) + 1]
                    ELSE [NewBuffer EXCEPT !.mut = Len(w.heap) + 1]]

\* Clone / CopyInto: the copy of the source and the store into the new
\* container
CopyStep(t) ==
    /\ Steps(t, CopyOps, "clone", "unlock")
    /\ world' = CopyMade(world)
    /\ UNCHANGED local

\* the deferred s.mutex.Unlock() of a write, of Flush and of Clone /
\* CopyInto, with which the call returns
Unlock(t) ==
    /\ world[arg[t].on].lock = t
    /\ Steps(t, LockingOps \cup {"Flush"}, "unlock", "done")
    /\ world' = [world EXCEPT
                    ![arg[t].on].lock = "free",
                    ![arg[t].on].done =
                        IF arg[t].op \in AllWriteOps THEN @ + 1 ELSE @,
                    !.made = @ \/ arg[t].op \in CopyOps]
    /\ UNCHANGED local

\* the first write of a run: Append(1) on a slice, Put("k1", 1) on a map
FirstWrite(kind) ==
    [NoThreadCall EXCEPT !.op = IF kind = "slice" THEN "Append" ELSE "Put",
                         !.key = "k1", !.val = 1]

\* a container after that write has returned
Written(w) ==
    [w EXCEPT !.s.dirty = TRUE, !.s.done = @ + 1]

\* a container after a Flush that found it dirty has returned
Flushed(w) ==
    [Copied(w, "s") EXCEPT !.s.read = Len(w.heap) + 1, !.s.dirty = FALSE]

\* the container after the first write and a Flush
FlushedStart(kind) ==
    Flushed(Written(Mutated(BufferWorld(kind), "s", FirstWrite(kind),
                            Empty(kind))))

InitBuffer ==
    /\ world \in {BufferWorld(kind) : kind \in BufferKinds}
                \cup {FlushedStart(kind) : kind \in BufferKinds}
    /\ shadow = NewWorld
    /\ ret = NoCall
    /\ issued = NoMap
    /\ returned = {}
    /\ calls = 0
    /\ pc = [t \in Goroutines |-> "done"]
    /\ arg = [t \in Goroutines |-> NoThreadCall]
    /\ local = [t \in Goroutines |-> NoLocal]
    /\ mutex = "free"

NextBuffer ==
    \E t \in Goroutines :
        \/ Begin(t)
        \/ ReadDirty(t)
        \/ ReadLoad(t)
        \/ ReadDeref(t)
        \/ ReadSlow(t)
        \/ TakeLock(t)
        \/ WriteGrow(t)
        \/ WriteMutate(t)
        \/ WriteDirty(t)
        \/ FlushDirty(t)
        \/ FlushCheck(t)
        \/ FlushCopy(t)
        \/ FlushPublish(t)
        \/ FlushClean(t)
        \/ CopyStep(t)
        \/ Unlock(t)

\* threads that call one container, and the one made from it, at the same
\* time
SpecBuffer == InitBuffer /\ [][NextBuffer]_vars

\* the threads that have returned from a read
ReadersDone ==
    {t \in Goroutines : arg[t].op \in AllReadOps /\ pc[t] = "done"}

\* C28: a read that starts after a write has returned observes the backing
\* store as of that write or a later one, under every interleaving with
\* Flush calls, other writers and other readers: the content a read
\* returns is never of fewer writes than had returned when it started.
C28_ReadsSeeReturnedWrites ==
    \A t \in ReadersDone : local[t].saw >= local[t].from

\* C28 witness: a read that started after a write had returned has taken
\* the fast path to the snapshot of a Flush that has not returned yet
C28_Witness ==
    \E t \in ReadersDone, u \in Goroutines :
        /\ local[t].fast
        /\ local[t].from >= 1
        /\ local[t].saw >= local[t].from
        /\ arg[u].op = "Flush"
        /\ arg[u].on = arg[t].on
        /\ pc[u] = "unlock"

\* the heap objects a fast-path read can reach: the snapshots of the
\* containers and the ones readers have loaded
Published(w) ==
    ({w.s.read, w.c.read}
        \cup {local[t].ptr : t \in {u \in Goroutines :
                                        /\ arg[u].op \in AllReadOps
                                        /\ pc[u] = "deref"}})
    \ {0}

\* every fast-path read that has returned found no snapshot or returned
\* the content of a snapshot made by one of the operations bys
FastReadsFrom(bys) ==
    \A t \in ReadersDone :
        (local[t].fast /\ local[t].ptr # 0) =>
            /\ world.heap[local[t].ptr].by \in bys
            /\ local[t].result =
                    ReadResult(arg[t], world.heap[local[t].ptr].data)

\* when a Flush that has made a snapshot is about to return, the snapshot
\* of the container is the one it made and has the content of the backing
\* store
FlushedComplete ==
    \A t \in Goroutines :
        (arg[t].op = "Flush" /\ pc[t] = "unlock" /\ local[t].ptr # 0) =>
            /\ world[arg[t].on].read = local[t].ptr
            /\ Content(world, world[arg[t].on].read)
                    = Content(world, world[arg[t].on].mut)

\* no step changes the content of a heap object a fast-path read can reach
SnapshotsKept ==
    \A id \in Published(world) : world'.heap[id].data = world.heap[id].data

\* C29, as stated: every value a fast-path read returns comes from a
\* snapshot a Flush made, which has the complete content of the backing
\* store when that Flush returns, and no write changes a published
\* snapshot.
C29_SnapshotsOfFlush ==
    /\ [](FastReadsFrom({"Flush"}) /\ FlushedComplete)
    /\ [][SnapshotsKept]_vars

\* C29, amended: every value a fast-path read returns comes from a
\* snapshot a Flush made, which has the complete content of the backing
\* store when that Flush returns, or from the snapshot Clone gave the
\* container, and no write changes a published snapshot.
C29_SnapshotsOfFlushOrClone ==
    /\ [](FastReadsFrom({"Flush", "Clone"}) /\ FlushedComplete)
    /\ [][SnapshotsKept]_vars

\* C29 witness: a fast-path read has returned the content of a snapshot a
\* Flush made while a writer that holds the lock has already changed the
\* backing store
C29_Witness ==
    \E t \in ReadersDone, u \in Goroutines :
        /\ local[t].fast
        /\ local[t].ptr # 0
        /\ world.heap[local[t].ptr].by = "Flush"
        /\ arg[u].op \in AllWriteOps
        /\ arg[u].on = arg[t].on
        /\ pc[u] = "dirty"
        /\ Content(world, world[arg[t].on].mut)
                # world.heap[local[t].ptr].data

\* C30, as stated: whenever a container is clean and no writer holds its
\* lock, its snapshot has exactly the content of its backing store; this
\* holds for the container Clone / CopyInto made as well.
C30_CleanMeansEqual ==
    \A on \in Existing(world) :
        (~world[on].dirty /\ world[on].lock = "free") =>
            Content(world, world[on].read) = Content(world, world[on].mut)

\* the thread whose step this is: the one whose statement changes
Stepping(t) == pc'[t] # pc[t]

\* the step clears the dirty flag of container on
Cleans(on) == world[on].dirty /\ ~world'[on].dirty

\* the step replaces the snapshot reference of container on
Installs(on) == world'[on].read # world[on].read

\* C31: the dirty flag of a container goes from true to false only in a
\* step of Flush that holds the write lock, after the snapshot that Flush
\* made has been installed; the snapshot reference of an existing
\* container is replaced only by a step of Flush, and no step of a write
\* changes it.
C31_OnlyFlushCleansAndInstalls ==
    [][\A on \in Existing(world) :
        /\ Cleans(on) =>
            \E t \in Goroutines :
                /\ Stepping(t)
                /\ arg[t].op = "Flush"
                /\ arg[t].on = on
                /\ world[on].lock = t
                /\ local[t].ptr # 0
                /\ world[on].read = local[t].ptr
                /\ world.heap[local[t].ptr].by = "Flush"
        /\ Installs(on) =>
            \E t \in Goroutines :
                /\ Stepping(t)
                /\ arg[t].op = "Flush"
                /\ arg[t].on = on
                /\ world[on].lock = t]_vars

\* C31 witness: a Flush that found the container dirty has installed its
\* snapshot and cleared the dirty flag, and still holds the lock
C31_Witness ==
    \E t \in Goroutines :
        /\ arg[t].op = "Flush"
        /\ pc[t] = "unlock"
        /\ local[t].ptr # 0
        /\ world[arg[t].on].read = local[t].ptr
        /\ ~world[arg[t].on].dirty
        /\ world[arg[t].on].lock = t

\* a step of thread t inside a call
StepOf(t) ==
    \/ ReadDirty(t)
    \/ ReadLoad(t)
    \/ ReadDeref(t)
    \/ ReadSlow(t)
    \/ TakeLock(t)
    \/ WriteGrow(t)
    \/ WriteMutate(t)
    \/ WriteDirty(t)
    \/ FlushDirty(t)
    \/ FlushCheck(t)
    \/ FlushCopy(t)
    \/ FlushPublish(t)
    \/ FlushClean(t)
    \/ CopyStep(t)
    \/ Unlock(t)

\* thread t is inside a call and waits for the lock of its container,
\* which another thread holds
Blocked(t) ==
    /\ pc[t] # "done"
    /\ ~ENABLED StepOf(t)

\* the threads a holder of the write lock may block: those with calls of
\* the ops at the statement that takes the lock
MayWait(t, ops) ==
    \/ arg[t].op \in ops /\ pc[t] = "lock"
    \/ arg[t].op \in AllReadOps /\ pc[t] = "slow"

\* thread t is blocked by a thread that holds the write lock for a write
BlockedByWrite(t) ==
    /\ Blocked(t)
    /\ \E u \in Goroutines \ {t} :
        /\ world[arg[t].on].lock = u
        /\ arg[u].op \in AllWriteOps

\* every thread a write blocks is one of those the ops allow to wait
WriteBlocksOnly(ops) ==
    \A t \in Goroutines : BlockedByWrite(t) => MayWait(t, ops)

\* every blocked thread is one of those the ops allow to wait, and it
\* waits while another thread holds the write lock of its container
BlocksOnly(ops) ==
    \A t \in Goroutines :
        Blocked(t) =>
            /\ MayWait(t, ops)
            /\ world[arg[t].on].lock \notin {"free", t}

\* a read that has found the container clean takes no lock and is never
\* blocked
FastPathFree ==
    \A t \in Goroutines :
        (arg[t].op \in AllReadOps /\ pc[t] \in {"load", "deref"}) =>
            /\ ~Blocked(t)
            /\ world[arg[t].on].lock # t

\* C32, as stated: a read that has found the container clean takes no lock
\* and is never blocked, also while another thread holds the write lock;
\* the only threads a holder of the write lock blocks are writers, Flush
\* and readers on the slow path.
C32_BlocksWritersFlushSlowReaders ==
    FastPathFree /\ WriteBlocksOnly(AllWriteOps \cup {"Flush"})

\* C32, amended: a read that has found the container clean takes no lock
\* and is never blocked, also while another thread holds the write lock;
\* the only threads a holder of the write lock blocks are writers, Flush,
\* Clone / CopyInto of the container and readers on the slow path.
C32_BlocksLockTakersAndSlowReaders ==
    FastPathFree /\ BlocksOnly(AllWriteOps \cup {"Flush"} \cup CopyOps)

\* C32 witness: a read is on the fast path while a writer that has changed
\* the backing store holds the write lock of the container
C32_Witness ==
    \E t \in Goroutines, u \in Goroutines :
        /\ arg[t].op \in AllReadOps
        /\ pc[t] = "deref"
        /\ arg[u].op \in AllWriteOps
        /\ arg[u].on = arg[t].on
        /\ pc[u] = "dirty"
        /\ world[arg[t].on].lock = u

\* the step of Flush thread t leaves the containers and the heap as they
\* are but for the lock it may release
FlushNoOp(t) ==
    /\ world'.heap = world.heap
    /\ world'[arg[t].on].mut = world[arg[t].on].mut
    /\ world'[arg[t].on].read = world[arg[t].on].read
    /\ ~world'[arg[t].on].dirty

\* C33: a Flush that finds the container clean, at its first look or under
\* the lock, installs no snapshot, leaves backing store and snapshot as
\* they are and leaves the dirty flag false, up to its return.
C33_FlushIdempotent ==
    [][\A t \in Goroutines :
        (/\ Stepping(t)
         /\ arg[t].op = "Flush"
         /\ ~world[arg[t].on].dirty
         /\ \/ pc[t] \in {"start", "check"}
            \/ pc[t] = "unlock" /\ local[t].ptr = 0) =>
            /\ FlushNoOp(t)
            /\ pc'[t] \in {"done", "unlock"}]_vars

\* C33 witness: a Flush has returned without making a snapshot from a
\* container that an earlier Flush had cleaned
C33_Witness ==
    \E t \in Goroutines :
        /\ arg[t].op = "Flush"
        /\ pc[t] = "done"
        /\ local[t].ptr = 0
        /\ world[arg[t].on].read # 0
        /\ world.heap[world[arg[t].on].read].by = "Flush"
        /\ ~world[arg[t].on].dirty

\* ------------------------------------ the two handle maps of a registry

\* r.handles and r.reverseHandles as lookups read them
HandleKeys(w) == MapView(w.res.handles)

KeyHandles(w) == MapView(w.res.reverseHandles)

\* the two maps are inverse bijections over the handles allocated so far
MutuallyInverse(w) ==
    /\ DOMAIN HandleKeys(w) = 1..w.res.lastHandle
    /\ \A hnd \in DOMAIN HandleKeys(w) :
        /\ HandleKeys(w)[hnd] \in DOMAIN KeyHandles(w)
        /\ KeyHandles(w)[HandleKeys(w)[hnd]] = hnd
    /\ \A key \in DOMAIN KeyHandles(w) :
        /\ KeyHandles(w)[key] \in DOMAIN HandleKeys(w)
        /\ HandleKeys(w)[KeyHandles(w)[key]] = key

\* every mapping of old is in new as it was
MappingsKept(old, new) ==
    \A x \in DOMAIN old : x \in DOMAIN new /\ new[x] = old[x]

\* the registries there are in state w: the one under test, and its clone
\* once Clone has returned it
RegistriesOf(w) == IF w.cloned THEN {w, Other(w)} ELSE {w}

\* C34: between calls, the handle->Key map and the Key->handle map of
\* every registry are mutually inverse bijections over exactly the handles
\* allocated so far, and no call removes or changes a mapping either map
\* holds.
C34_HandleMapsInverse ==
    [][/\ \A w \in RegistriesOf(world') : MutuallyInverse(w)
       /\ MappingsKept(HandleKeys(world), HandleKeys(world'))
       /\ MappingsKept(KeyHandles(world), KeyHandles(world'))
       /\ MappingsKept(HandleKeys(Other(world)), HandleKeys(Other(world')))
       /\ MappingsKept(KeyHandles(Other(world)),
                       KeyHandles(Other(world')))]_vars

\* the registry under test alone keeps the two maps inverse and every
\* mapping it holds
SourceMapsInverse ==
    [][/\ MutuallyInverse(world')
       /\ MappingsKept(HandleKeys(world), HandleKeys(world'))
       /\ MappingsKept(KeyHandles(world), KeyHandles(world'))]_vars

\* ------------------------------------------- get-or-create at the same time

\* r.AddString(key, Values{language.English: string(key)}), the call
\* StringKey makes on its slow path
AddStringOfKey(key) ==
    [NoThreadCall EXCEPT !.op = "Add", !.kind = MessageString, !.key = key,
                         !.vals = <<<<"en", KeyText(key)>>>>]

\* the calls of a thread: StringKey(key) or AddString(key, ...) for the Key
\* the registry has and for one it does not have
KeyThreadCalls ==
    {[NoThreadCall EXCEPT !.op = "StringKey", !.key = key] : key \in Keys}
    \cup {AddStringOfKey(key) : key \in Keys}

InitKeys ==
    /\ world = KindsStart
    /\ shadow = KindsStart
    /\ ret = NoCall
    /\ issued = "k1" :> 1
    /\ returned = {1}
    /\ calls = 0
    /\ pc = [t \in Goroutines |-> "start"]
    /\ arg \in [Goroutines -> KeyThreadCalls]
    /\ local = [t \in Goroutines |-> NoLocal]
    /\ mutex = "free"

\* StringKey: the fast path, if v, ok := r.reverseHandles.Get(key); ok
\* { return StrHnd(v) }, and else the call of AddString, whose handle
\* StringKey returns with or without os.ErrExist
StringKeyGet(t) ==
    /\ arg[t].op = "StringKey"
    /\ pc[t] = "start"
    /\ pc' = [pc EXCEPT ![t] = IF GetHandle(world, arg[t].key).ok
                               THEN "done" ELSE "start"]
    /\ arg' = [arg EXCEPT ![t] = IF GetHandle(world, arg[t].key).ok
                                 THEN @ ELSE AddStringOfKey(@.key)]
    /\ local' = [local EXCEPT
                    ![t].hnd = GetHandle(world, arg[t].key).v,
                    ![t].fast = GetHandle(world, arg[t].key).ok]
    /\ UNCHANGED <<world, shadow, ret, issued, returned, calls, mutex>>

NextKeys ==
    \E t \in Goroutines :
        \/ StringKeyGet(t)
        \/ AddLock(t)
        \/ AddExist(t)
        \/ AddRegister(t)
        \/ AddValue(t)
        \/ AddUnlock(t)

\* three threads that each call StringKey or AddString on the same registry
SpecKeys == InitKeys /\ [][NextKeys]_vars

\* the handles allocated for the Key: nextHnd's results put into r.handles
AllocatedFor(key) ==
    {hnd \in DOMAIN world.res.handles.mut :
        world.res.handles.mut[hnd] = key}

\* the threads whose call for the Key has returned
ReturnedFor(key) ==
    {t \in Goroutines : arg[t].key = key /\ pc[t] = "done"}

\* C35: when several threads call StringKey(k) or AddString(k, ...) at the
\* same time, at most one handle is ever allocated for k, and every call
\* that has returned has returned that one handle.
C35_OneHandlePerKey ==
    \A key \in Keys :
        /\ Cardinality(AllocatedFor(key)) <= 1
        /\ \A t \in ReturnedFor(key) : AllocatedFor(key) = {local[t].hnd}

\* C35 witness: three calls for a Key the registry did not have, StringKey
\* and AddString among them, have all returned; one of them created the
\* handle, one found it under the mutex and got os.ErrExist
C35_Witness ==
    /\ ReturnedFor("k2") = Goroutines
    /\ AllocatedFor("k2") = {2}
    /\ \E t \in Goroutines, u \in Goroutines :
        /\ arg["t3"].vals # <<>>
        /\ ~local["t3"].fast
        /\ local[t].err = "nil"
        /\ local[u].err = "ErrExist"
        /\ local[u].hnd = 2

\* ------------------------------------------------ the locks of a registry

\* The calls of a registry as the sequences of lock operations they make.
\* The containers are the priority list, the language map, the strings of
\* a Bundle and the two handle maps; of a container only its dirty flag,
\* the threads that hold its read lock and the threads that wait for its
\* write lock are kept.  What a branch of the code depends on other than a
\* dirty flag is left open: both ways are taken.  A call of Lock() ..
\* Unlock() or RLock() .. RUnlock() with no call in between is one step; a
\* pending Lock() keeps new readers out, as sync.RWMutex does.
Containers ==
    {"priorities", "children", "strings", "reverseHandles", "handles"}

\* a container: dirty flag, holders of the read lock, waiting writers
NoLocks == [dirty |-> FALSE, readers |-> {}, waiting |-> {}]

\* the containers of a registry, all flushed or all written to
LockWorld(dirty) ==
    [priorities |-> [NoLocks EXCEPT !.dirty = dirty],
     children |-> [NoLocks EXCEPT !.dirty = dirty],
     strings |-> [NoLocks EXCEPT !.dirty = dirty],
     reverseHandles |-> [NoLocks EXCEPT !.dirty = dirty],
     handles |-> [NoLocks EXCEPT !.dirty = dirty]]

\* the rounds a loop over All() makes at most
MaxRounds == 1

\* one operation of a call: what it does, on which container, and how many
\* operations its other way skips (back, when negative)
Ins(do, on, to) == [do |-> do, on |-> on, to |-> to]

\* AddString / AddVarString / AddQuantityString with one value
AddProgram ==
    << Ins("Lock", "mutex", 0),
       Ins("Test", "reverseHandles", 5),
       Ins("Write", "handles", 0),
       Ins("Write", "reverseHandles", 0),
       Ins("Test", "children", 1),
       Ins("Write", "children", 0),
       Ins("Write", "strings", 0),
       Ins("Unlock", "mutex", 0) >>

\* AddLanguage
AddLanguageProgram ==
    << Ins("Lock", "mutex", 0),
       Ins("Test", "children", 2),
       Ins("Write", "priorities", 0),
       Ins("Write", "children", 0),
       Ins("Unlock", "mutex", 0) >>

\* SetPriorities: Clear, Append
SetPrioritiesProgram ==
    << Ins("Write", "priorities", 0),
       Ins("Write", "priorities", 0) >>

\* a Flush whose loop takes the registry mutex for every Bundle
FlushProgramUnderMutex ==
    << Ins("FlushCheck", "children", 1),
       Ins("FlushLock", "children", 0),
       Ins("Range", "children", 4),
       Ins("Lock", "mutex", 0),
       Ins("FlushCheck", "strings", 1),
       Ins("FlushLock", "strings", 0),
       Ins("Unlock", "mutex", 0),
       Ins("Loop", "children", -4),
       Ins("FlushCheck", "handles", 1),
       Ins("FlushLock", "handles", 0),
       Ins("FlushCheck", "reverseHandles", 1),
       Ins("FlushLock", "reverseHandles", 0),
       Ins("FlushCheck", "priorities", 1),
       Ins("FlushLock", "priorities", 0) >>

\* Resources.Flush: children.Flush, Bundle.Flush for every Bundle of
\* children.All(), then the handle maps and the priorities
FlushProgram ==
    << Ins("FlushCheck", "children", 1),
       Ins("FlushLock", "children", 0),
       Ins("Range", "children", 2),
       Ins("FlushCheck", "strings", 1),
       Ins("FlushLock", "strings", 0),
       Ins("Loop", "children", -2),
       Ins("FlushCheck", "handles", 1),
       Ins("FlushLock", "handles", 0),
       Ins("FlushCheck", "reverseHandles", 1),
       Ins("FlushLock", "reverseHandles", 0),
       Ins("FlushCheck", "priorities", 1),
       Ins("FlushLock", "priorities", 0) >>

\* Resources.Clone: CopyInto of the maps, Clone of the priorities
CloneProgram ==
    << Ins("Lock", "mutex", 0),
       Ins("Copy", "children", 0),
       Ins("Copy", "handles", 0),
       Ins("Copy", "reverseHandles", 0),
       Ins("Copy", "priorities", 0),
       Ins("Unlock", "mutex", 0) >>

\* MatchTag: with a matcher, priorities.At alone; without, the rebuild
\* under the mutex, which the deferred Unlock releases after priorities.At
MatchTagProgram ==
    << Ins("Branch", "none", 1),
       Ins("Read", "priorities", 10),
       Ins("Lock", "mutex", 0),
       Ins("Range", "priorities", 0),
       Ins("Loop", "priorities", 0),
       Ins("Range", "children", 0),
       Ins("Loop", "children", 0),
       Ins("Write", "priorities", 0),
       Ins("FlushCheck", "priorities", 1),
       Ins("FlushLock", "priorities", 0),
       Ins("Read", "priorities", 0),
       Ins("Unlock", "mutex", 0) >>

\* matchStrData, which every Match...String and, when its own Bundle lacks
\* the entry, every Bundle lookup goes through: MatchBundle (children.Get,
\* and when the tag has no Bundle MatchTag and children.Get again),
\* strings.At, the loop over priorities.All() with children.Get and
\* strings.At, the loop over children.All() with strings.At
MatchStrDataProgram ==
    << Ins("Test", "children", Len(MatchTagProgram) + 1) >>
    \o MatchTagProgram
    \o << Ins("Test", "children", 8),
          Ins("Test", "strings", 7),
          Ins("Range", "priorities", 2),
          Ins("Test", "children", 1),
          Ins("Read", "strings", 0),
          Ins("Loop", "priorities", -2),
          Ins("Branch", "none", 3),
          Ins("Range", "children", 1),
          Ins("Read", "strings", 0),
          Ins("Loop", "children", -1) >>

\* Resources.MessageType: Bundle.MessageTypeByKey for every Bundle of
\* children.All()
MessageTypeProgram ==
    << Ins("Range", "children", 2),
       Ins("Read", "reverseHandles", 0),
       Ins("Read", "strings", 0),
       Ins("Loop", "children", -2) >>

\* Bundle.Update
UpdateProgram ==
    << Ins("Test", "reverseHandles", 2 * Len(MessageTypeProgram) + 6) >>
    \o MessageTypeProgram
    \o << Ins("Branch", "none", 1),
          Ins("Read", "strings", 0) >>
    \o MessageTypeProgram
    \o << Ins("Branch", "none", 3),
          Ins("Branch", "none", 1),
          Ins("Test", "strings", 1),
          Ins("Write", "strings", 0) >>

\* the calls of the threads: the first registers, the second updates or
\* flushes, the third matches
LockCalls ==
    [t1 |-> {"Add", "AddLanguage", "SetPriorities", "Clone"},
     t2 |-> {"Update", "Flush"},
     t3 |-> {"MatchTag", "MatchStrData"}]

\* the operations of a call
Program(op) ==
    CASE op = "Add" -> AddProgram
      [] op = "AddLanguage" -> AddLanguageProgram
      [] op = "SetPriorities" -> SetPrioritiesProgram
      [] op = "Update" -> UpdateProgram
      [] op = "Flush" -> FlushProgram
      [] op = "Clone" -> CloneProgram
      [] op = "MatchTag" -> MatchTagProgram
      [] op = "MatchStrData" -> MatchStrDataProgram

\* one call per thread, on a registry whose containers are all flushed or
\* all written to
InitLocks ==
    /\ world \in {LockWorld(FALSE), LockWorld(TRUE)}
    /\ shadow = world
    /\ ret = NoCall
    /\ issued = <<>>
    /\ returned = {}
    /\ calls = 0
    /\ pc = [t \in Goroutines |-> "run"]
    /\ arg \in {a \in [Goroutines ->
                        {[NoThreadCall EXCEPT !.op = op] :
                            op \in UNION {LockCalls[t] : t \in Goroutines}}] :
                    \A t \in Goroutines : a[t].op \in LockCalls[t]}
    /\ local = [t \in Goroutines |-> NoLocal]
    /\ mutex = "free"

\* the operation thread t is at
Current(t) == Program(arg[t].op)[local[t].i]

\* thread t is at an operation of the kind
AtIns(t, do) == pc[t] # "done" /\ Current(t).do = do

\* thread t goes on to operation n of its call, with the locals l
Reaches(t, n, l) ==
    /\ pc' = [pc EXCEPT ![t] = IF n > Len(Program(arg[t].op))
                               THEN "done" ELSE "run"]
    /\ local' = [local EXCEPT ![t] = [l EXCEPT !.i = n]]
    /\ UNCHANGED <<shadow, ret, issued, returned, calls, arg>>

\* thread t goes on to the operation after the current one and after those
\* the current one skips
GoesOn(t) == Reaches(t, local[t].i + 1 + Current(t).to, local[t])

\* RLock() returns at once: no writer waits (no writer holds the lock
\* between two steps)
CanRead(c) == world[c].waiting = {}

\* Lock() returns at once: no thread holds the read lock
CanWrite(c) == world[c].readers = {}

\* container c after a write-locked operation of thread t that leaves the
\* dirty flag as given
Written36(c, t, dirty) ==
    [world EXCEPT ![c].dirty = dirty, ![c].waiting = @ \ {t}]

\* r.mutex.Lock()
MutexLock(t) ==
    /\ AtIns(t, "Lock")
    /\ mutex = "free"
    /\ mutex' = t
    /\ GoesOn(t)
    /\ UNCHANGED world

\* r.mutex.Unlock(), deferred
MutexUnlock(t) ==
    /\ AtIns(t, "Unlock")
    /\ mutex = t
    /\ mutex' = "free"
    /\ GoesOn(t)
    /\ UNCHANGED world

\* Get / At / Len: without a lock on a clean container, under the read
\* lock on a dirty one
LockRead(t) ==
    /\ AtIns(t, "Read")
    /\ world[Current(t).on].dirty => CanRead(Current(t).on)
    /\ GoesOn(t)
    /\ UNCHANGED <<world, mutex>>

\* if v, ok := Get / At(...); ok: the read, and on, or past what the if
\* skips
LockTest(t) ==
    /\ AtIns(t, "Test")
    /\ world[Current(t).on].dirty => CanRead(Current(t).on)
    /\ \/ Reaches(t, local[t].i + 1, local[t])
       \/ Reaches(t, local[t].i + 1 + Current(t).to, local[t])
    /\ UNCHANGED <<world, mutex>>

\* a call of Lock() that has to wait
LockWait(t) ==
    /\ pc[t] = "run"
    /\ Current(t).do \in {"Write", "FlushLock", "Copy"}
    /\ ~CanWrite(Current(t).on)
    /\ world' = [world EXCEPT ![Current(t).on].waiting = @ \cup {t}]
    /\ pc' = [pc EXCEPT ![t] = "wait"]
    /\ UNCHANGED <<shadow, ret, issued, returned, calls, arg, local, mutex>>

\* Put / Set / Append / Clear / Replace
LockWrite(t) ==
    /\ AtIns(t, "Write")
    /\ CanWrite(Current(t).on)
    /\ world' = Written36(Current(t).on, t, TRUE)
    /\ GoesOn(t)
    /\ UNCHANGED mutex

\* Flush of a container: if !s.dirty.Load() { return }
LockFlushCheck(t) ==
    /\ AtIns(t, "FlushCheck")
    /\ Reaches(t, IF world[Current(t).on].dirty
                  THEN local[t].i + 1
                  ELSE local[t].i + 1 + Current(t).to, local[t])
    /\ UNCHANGED <<world, mutex>>

\* Flush of a container: the rest, under the write lock
LockFlush(t) ==
    /\ AtIns(t, "FlushLock")
    /\ CanWrite(Current(t).on)
    /\ world' = Written36(Current(t).on, t, FALSE)
    /\ GoesOn(t)
    /\ UNCHANGED mutex

\* CopyInto / Clone of a container, under its write lock
LockCopy(t) ==
    /\ AtIns(t, "Copy")
    /\ CanWrite(Current(t).on)
    /\ world' = Written36(Current(t).on, t, world[Current(t).on].dirty)
    /\ GoesOn(t)
    /\ UNCHANGED mutex

\* All(): the snapshot of a clean container, or RLock() of a dirty one,
\* held while the loop runs
LockRange(t) ==
    /\ AtIns(t, "Range")
    /\ world[Current(t).on].dirty => CanRead(Current(t).on)
    /\ world' = IF world[Current(t).on].dirty
                THEN [world EXCEPT ![Current(t).on].readers = @ \cup {t}]
                ELSE world
    /\ Reaches(t, local[t].i + 1 + Current(t).to,
               [local[t] EXCEPT !.saw = 0])
    /\ UNCHANGED mutex

\* one more round of the loop
LockAgain(t) ==
    /\ AtIns(t, "Loop")
    /\ local[t].saw < MaxRounds
    /\ Reaches(t, local[t].i + Current(t).to,
               [local[t] EXCEPT !.saw = @ + 1])
    /\ UNCHANGED <<world, mutex>>

\* the loop ends, or the call returns from inside it: the deferred
\* RUnlock()
LockLeave(t) ==
    /\ AtIns(t, "Loop")
    /\ world' = [world EXCEPT ![Current(t).on].readers = @ \ {t}]
    /\ Reaches(t, local[t].i + 1, local[t])
    /\ UNCHANGED mutex

\* an if of the code the model leaves open: on, or past what it skips
LockBranch(t) ==
    /\ AtIns(t, "Branch")
    /\ \/ Reaches(t, local[t].i + 1, local[t])
       \/ Reaches(t, local[t].i + 1 + Current(t).to, local[t])
    /\ UNCHANGED <<world, mutex>>

\* a step of thread t
Run(t) ==
    \/ MutexLock(t)
    \/ MutexUnlock(t)
    \/ LockRead(t)
    \/ LockTest(t)
    \/ LockWait(t)
    \/ LockWrite(t)
    \/ LockFlushCheck(t)
    \/ LockFlush(t)
    \/ LockCopy(t)
    \/ LockRange(t)
    \/ LockAgain(t)
    \/ LockLeave(t)
    \/ LockBranch(t)

NextLocks == \E t \in Goroutines : Run(t)

\* three threads that each make one call on the same registry
SpecLocks == InitLocks /\ [][NextLocks]_vars

\* the same under the scheduler of Go, which runs every goroutine that can
\* run
FairSpecLocks == SpecLocks /\ \A t \in Goroutines : WF_vars(Run(t))

\* the locks in the order the calls take them
LockRank(l) ==
    CASE l = "mutex" -> 0
      [] l = "priorities" -> 1
      [] l = "children" -> 2
      [] OTHER -> 3

\* the locks thread t holds
Holds(t) ==
    {c \in Containers : t \in world[c].readers}
    \cup (IF mutex = t THEN {"mutex"} ELSE {})

\* thread t is about to take the lock of its operation
Takes(t) ==
    /\ pc[t] # "done"
    /\ \/ Current(t).do \in {"Lock", "Write", "FlushLock", "Copy"}
       \/ /\ Current(t).do \in {"Read", "Test", "Range"}
          /\ world[Current(t).on].dirty

\* every thread takes a lock only after the locks it holds
InLockOrder ==
    \A t \in Goroutines :
        Takes(t) =>
            \A l \in Holds(t) : LockRank(l) < LockRank(Current(t).on)

\* some thread is inside a call and no thread can take a step
Deadlocked ==
    /\ \E t \in Goroutines : pc[t] # "done"
    /\ ~ENABLED NextLocks

\* every thread has returned from its call
AllReturned == \A t \in Goroutines : pc[t] = "done"

\* C36: whatever calls three threads make on one registry, no state is a
\* deadlock, every lock is taken after the locks the thread holds in the
\* order registry mutex, priority list, language map, Bundle and handle-map
\* containers, and under fair scheduling every call returns.
C36_EveryCallReturns ==
    /\ [](InLockOrder /\ ~Deadlocked)
    /\ <>AllReturned

\* C36 witness: a thread waits for the write lock of a container whose read
\* lock another thread holds inside a loop, while a third holds the mutex
C36_Witness ==
    \E t \in Goroutines, u \in Goroutines, v \in Goroutines :
        /\ pc[t] = "wait"
        /\ u \in world[Current(t).on].readers
        /\ mutex = v
        /\ v \notin {t, u}

\* C37: in every state, every Key that has a handle has a defined
\* registry-wide MessageType (MessageType never answers MessageUndefined
\* for it), also after an add call with an empty value map and after an
\* AddVarString / AddQuantityString call that failed on its first language.
C37_EveryKeyHasAType ==
    \A key \in Keys :
        GetHandle(world, key).ok =>
            MessageUndefined \notin MessageType(world, key)

\* ------------------------------------------- registrations on the clone

\* the (tag, handle) entries lookups on registry w return
EntriesOf(w) ==
    {<<tag, hnd, StringsAt(w, GetChild(w, tag).v, hnd).v>> :
        tag \in ChildTags(w), hnd \in 0..(MaxHandle + 1)}

\* the entries of w that are there: b.strings.At(hnd) answers ok
HeldEntries(w) ==
    {e \in EntriesOf(w) : StringsAt(w, GetChild(w, e[1]).v, e[2]).ok}

\* the priorities lookups on registry w see
PrioritiesOf(w) == SliceAll(w.res.priorities)

\* old is the beginning of new
KeptPriorities(old, new) ==
    /\ Len(old) <= Len(new)
    /\ \A i \in 1..Len(old) : new[i] = old[i]

\* the step is the return of one of the calls made on the clone
CloneCallOf(ops) ==
    /\ calls' # calls
    /\ world.cloned
    /\ ret'.on = "c"
    /\ ret'.op \in ops

\* C38: after AddLanguage, an add call or SetPriorities on the clone, every
\* (tag, handle) entry the clone returned before the call, but those of the
\* handle an add call returns, is returned as before, and after AddLanguage
\* or an add call so is every priority.
C38_CloneKeepsWhatItHeld ==
    [][/\ CloneCallOf(AddOps \cup {"AddLanguage", "SetPriorities"}) =>
            \A e \in HeldEntries(Other(world)) :
                \/ e \in HeldEntries(Other(world'))
                \/ ret'.op \in AddOps /\ e[2] = ret'.hnd
       /\ CloneCallOf(AddOps \cup {"AddLanguage"}) =>
            KeptPriorities(PrioritiesOf(Other(world)),
                           PrioritiesOf(Other(world')))]_vars

\* ---------------------------------------- add calls for a Key that is there

\* the Key -> handle map of registry w holds the Key
HasHandle(w, key) ==
    key \in DOMAIN w.res.reverseHandles.mut
              \cup DOMAIN w.res.reverseHandles.read

\* the registry the last call was made on, in state w
CalledOn(w, r) == IF r.on = "c" THEN Other(w) ELSE w

\* C39: an add call for a Key that has a handle in the registry it is made
\* on changes nothing, whatever values, kind and options it is given: no
\* Bundle is created, no entry written, no hint applied, no container made
\* dirty.
C39_AddOfKnownKeyChangesNothing ==
    [][(/\ calls' # calls
        /\ ret'.op \in AddOps
        /\ HasHandle(CalledOn(world, ret'), ret'.key))
       => world' = world]_vars

\* ------------------------------------ plural forms across languages

\* a registry whose English Bundle has the quantity entry of "k1", with
\* templates for One and Other or for Other alone, and whose French Bundle
\* has no entries
PluralStarts ==
    {AddLanguage(Add(NewWorld, MessageQuantities, "k1", <<<<"en", q>>>>,
                     <<>>).w, "fr").w :
        q \in {GoodQuantities, NewQuantities}}

InitPlural ==
    /\ world \in PluralStarts
    /\ shadow = world
    /\ ret = NoCall
    /\ issued = ("k1" :> 1)
    /\ returned = {1}
    /\ calls = 0
    /\ NoThreads

\* the calls of SpecStrings on a registry with a French Bundle
SpecPlural == InitPlural /\ [][NextStrings]_vars

\* QuantityString has returned an entry that is not of the Bundle it was
\* called on, which is the French one
FellBackFromFrench ==
    /\ ret.op = "QuantityString"
    /\ ret.ok
    /\ BundleTag(ret.tag) = "fr"
    /\ ~(/\ StringsAt(world, ret.tag, ret.hnd).ok
         /\ StringsAt(world, ret.tag, ret.hnd).v.kind = MessageQuantities)

\* the string the template of the Quantities field makes without arguments
FormString(data, form) ==
    ExecuteArgs(ParseTemplate(data.quantityTemplates.raw[form]).tpl, <<>>)

\* C40: when QuantityString of the French Bundle falls back to the entry of
\* another language, the category is the one French rules select (One for
\* 0 and 1, Other for 2) and the string is made of that entry's template
\* for it: for 0 it is empty when the entry has no One template, whatever
\* its Other template is.
C40_PluralRulesOfRequester ==
    FellBackFromFrench =>
        \E data \in QuantityEntries(world, ret.tag, ret.hnd) :
            ret.str = FormString(data, IF ret.quantity \in {0, 1}
                                       THEN "One" ELSE "Other")

\* C40 witness: QuantityString of the French Bundle for 0 has returned the
\* empty string from an English entry that has a template for Other, the
\* category of 0 in English, and none for One
C40_Witness ==
    /\ FellBackFromFrench
    /\ ret.quantity = 0
    /\ ret.str = <<>>
    /\ \E data \in QuantityEntries(world, ret.tag, ret.hnd) :
        /\ data.quantityTemplates.raw.One = <<>>
        /\ data.quantityTemplates.raw.Other # <<>>
        /\ StringsAt(world, "en", ret.hnd).v = data

====
